---- MODULE Spec2Model ----
(***************************************************************************)
(* Model of the RouterOS API client of external-dns-routeros-provider      *)
(* (src/external_dns_mikrotik_webhook/mikrotik.py): Response, Connection   *)
(* (open / close / send, background reader, idle monitor) and the device   *)
(* at the other end of the socket.                                         *)
(*                                                                         *)
(* The program runs on one asyncio event loop: a task runs without         *)
(* interruption from one `await` that suspends to the next.  Every action  *)
(* below is one such uninterrupted block of one task.                      *)
(***************************************************************************)
EXTENDS Integers, Sequences, FiniteSets, TLC

(* ---- bounds of the model ---- *)
NumCallers == 2
MaxTag == 4
MaxClose == 5
MaxDisturbances == 1
MaxReplies == 2
MaxSentences == 3
MaxEndpoints == 2
MaxBatch == 4

(* Connection.idle_timeout, in ticks of the clock (the integration test     *)
(* sets it to 2 seconds)                                                    *)
IdleTimeout == 2

Callers == 1..NumCallers
Closers == 1..MaxClose
Gens == 1..MaxTag

NoTask == <<"none", 0>>
SendTask(c) == <<"send", c>>
CloseTask(k) == <<"close", k>>

(* ---- words ---- *)
(* A word is kept by its parse: <<kind, key, value>>.  kind is the first    *)
(* character the reader dispatches on ("!" type, "=" attribute, "." api     *)
(* attribute, "/" command, "" the empty word).                              *)
TypeWord(t) == <<"!", t, "">>
AttrWord(k, v) == <<"=", k, v>>
ApiWord(k, v) == <<".", k, v>>
CmdWord(c) == <<"/", c, "">>
EmptyWord == <<"", "", "">>

Tag(n) == ToString(n)

to_api_attribute_words(tag) == <<ApiWord(".tag", tag)>>

get_sentence(words, tag) == words \o to_api_attribute_words(tag) \o <<EmptyWord>>

LoginWords == <<CmdWord("/login"), AttrWord("name", "user"), AttrWord("password", "pw")>>
PrintWords == <<CmdWord("/ip/dns/static/print"), AttrWord("detail", "")>>

(* ---- ResponseSentence ---- *)
NoSentence == [type |-> "", attributes |-> {}, api_attributes |-> {}]
ResponseSentence(t) == [type |-> t, attributes |-> {}, api_attributes |-> {}]

(* dict assignment d[k] = v on a dict kept as a set of <<key, value>> *)
DictSet(d, k, v) == {p \in d : p[1] # k} \cup {<<k, v>>}
DictHas(d, k) == \E p \in d : p[1] = k
DictGet(d, k) == (CHOOSE p \in d : p[1] = k)[2]

(* ---- Response ---- *)
(* A Response that is complete from its construction *)
BornComplete(tag) == [tag |-> tag, sentences |-> <<>>, status |-> "success", completion_event |-> TRUE]

Response(tag) == [tag |-> tag, sentences |-> <<>>, status |-> "in-progress", completion_event |-> FALSE]

is_complete(r) == r.completion_event

(* update_with_sentence where a `!done` sets the status whatever came before *)
DoneDecides(r, s) ==
  IF is_complete(r) THEN r
  ELSE [r EXCEPT !.sentences = Append(@, s),
                 !.status = IF s.type = "!trap" THEN "error" ELSE IF s.type = "!done" THEN "success" ELSE @,
                 !.completion_event = (s.type = "!done")]

update_with_sentence(r, s) ==
  IF is_complete(r) THEN r
  ELSE [r EXCEPT !.sentences = Append(@, s),
                 !.status = IF s.type = "!trap" THEN "error"
                            ELSE IF s.type = "!done" /\ @ = "in-progress" THEN "success"
                            ELSE @,
                 !.completion_event = (s.type # "!trap" /\ s.type = "!done")]

CancelSentence == [type |-> "!trap", attributes |-> {<<"message", "response cancelled">>}, api_attributes |-> {}]

(* The response carries the sentence close() cancels with *)
Cancelled(r) == \E i \in DOMAIN r.sentences : r.sentences[i] = CancelSentence

(* cancel() that does not test completion *)
CancelUnchecked(r) == [r EXCEPT !.sentences = Append(@, CancelSentence), !.status = "error"]

cancel(r) == IF is_complete(r) THEN r ELSE update_with_sentence(r, CancelSentence)

(* raise_for_error that never raises *)
NeverRaises(r) == "ok"

raise_for_error(r) ==
  IF ~is_complete(r) THEN "RuntimeError"
  ELSE IF r.status # "error" THEN "ok"
  ELSE "ResponseError"

(* The data of every sentence, whatever its type *)
Unfiltered(r, type) == [i \in 1..Len(r.sentences) |-> r.sentences[i].attributes]

(* `for sentence in self.sentences: if sentence.type != type: continue; *)
(* data.append(dict(sentence.attributes))`                               *)
SentenceData(r, type) ==
  LET kept == SelectSeq(r.sentences, LAMBDA s : s.type = type)
  IN [i \in 1..Len(kept) |-> kept[i].attributes]

get_data(r) ==
  IF ~is_complete(r) THEN [error |-> "response in progress", data |-> <<>>]
  ELSE IF ~(r.status = "success") THEN [error |-> "response not success", data |-> <<>>]
  ELSE [error |-> "", data |-> SentenceData(r, "!re")]

get_error_data(r) ==
  IF ~is_complete(r) THEN [error |-> "response in progress", data |-> <<>>]
  ELSE IF ~(r.status = "error") THEN [error |-> "response not error", data |-> <<>>]
  ELSE [error |-> "", data |-> SentenceData(r, "!trap")]

(* ResponseError(response): the messages it is built with *)
ResponseError(r) ==
  LET data == get_error_data(r).data
  IN [response |-> r,
      messages |-> [i \in 1..Len(data) |->
                      IF DictHas(data[i], "message") THEN DictGet(data[i], "message") ELSE "unknown error"]]


(* ---- state ---- *)
VARIABLES
  stream,           \* Connection.stream: 0 is None, g > 0 the socket of the g-th request tag
  closed_event,     \* Connection.closed_event
  idle,             \* now - Connection.idle_since, in ticks, saturating at IdleTimeout
  responses,        \* Connection.responses: the tags (numbers) of the pending map
  background_tasks, \* Connection.background_tasks: task kinds, in list order
  lockOwner,        \* Connection.stream_lock: the task holding it
  lockQ,            \* Connection.stream_lock: its waiters, first come first served
  resp,             \* the Response objects, by tag number (NoResponse once unreferenced)
  nextTag,          \* the next fresh tag number (uuid4 never repeats)
  reader,           \* run_background_read task of each socket
  monitor,          \* run_background_idle_monitor task of each socket
  caller,           \* the tasks calling send(): position and locals
  closer,           \* the close() coroutines: position and locals
  sockets,          \* the sockets that are open: dialed, and writer.close() not called
  paused,           \* the current socket's transport has paused writing (drain() suspends)
  wire,             \* words written to the current socket since the last empty word
  received,         \* tag numbers of the requests the device has received on this socket
  net,              \* words the device sent that the reader has not read yet
  devSent,          \* per tag number, the sentences the device sent with that tag
  devDone,          \* tag numbers the device answered with !done on the current socket
  session,          \* what the device made of /login on the current socket
  faults,           \* device / socket / network faults so far
  pauses,           \* times the transport paused writing so far
  userCloses,       \* direct close() calls made so far
  response,         \* a Response object some code holds and calls methods of
  call,             \* the last method called on it, and whether it raised
  changes,          \* Provider.apply_changes: the batch it was called with
  record_map,       \* Provider.apply_changes: record_map.data
  apply,            \* Provider.apply_changes: its position, locals and outcome
  calls,            \* the requests the provider's client has sent, in order
  in_flight,        \* the client calls that have not returned
  client_response,  \* the Response of the client call under way
  applied           \* the last call of a helper function: its name, argument and outcome

vars == <<stream, closed_event, idle, responses, background_tasks, lockOwner, lockQ,
          resp, nextTag, reader, monitor, caller, closer, sockets, paused,
          wire, received, net, devSent, devDone, session, faults, pauses, userCloses,
          response, call, changes, record_map, apply, calls, in_flight, client_response, applied>>

connVars == <<stream, closed_event, idle, responses, background_tasks, resp>>
lockVars == <<lockOwner, lockQ>>
taskVars == <<reader, monitor>>
wireVars == <<paused, wire, received, pauses>>
devVars == <<net, devSent, devDone, session, faults>>
provVars == <<changes, record_map, apply, calls, in_flight, client_response>>
unitVars == <<response, call, provVars, applied>>

IdleCaller == [pc |-> "idle", stream |-> 0, tag |-> 0, idx |-> 0, result |-> "none"]
FreeCloser == [pc |-> "free", await |-> ""]
NoCall == [method |-> "", sentence |-> NoSentence, raised |-> FALSE, error |-> "", result |-> <<>>]
NoResponse == [tag |-> "", sentences |-> <<>>, status |-> "in-progress", completion_event |-> FALSE]
NoApplied == [fn |-> "", arg |-> <<>>, out |-> <<>>]

(* ---- provider.py: the data ---- *)
Min(a, b) == IF a <= b THEN a ELSE b

(* Endpoint: dnsName, recordType, targets *)
None == [none |-> TRUE]
Endpoint(type, targets) ==
  [dns_name |-> "a.lan", record_type |-> type, targets |-> targets, record_ttl |-> None]

(* The endpoints of the batches: two A records that share a target, and a   *)
(* PTR record                                                                *)
Endpoints ==
  { Endpoint("A", <<"10.0.0.5", "10.0.0.6">>),
    Endpoint("A", <<"10.0.0.6", "10.0.0.7">>),
    Endpoint("PTR", <<"10.0.0.5">>) }

EndpointLists(n) == [1..n -> Endpoints]

(* The lengths of the four lists of a batch *)
BatchSizes ==
  {l \in [create : 0..MaxEndpoints, update_old : 0..MaxEndpoints, update_new : 0..MaxEndpoints,
          delete : 0..MaxEndpoints] :
     l.create + l.update_old + l.update_new + l.delete <= MaxBatch}

(* Changes: Create, UpdateOld, UpdateNew, Delete (an absent list is empty) *)
Changes ==
  UNION {[create : EndpointLists(l.create), update_old : EndpointLists(l.update_old),
          update_new : EndpointLists(l.update_new), delete : EndpointLists(l.delete)] :
           l \in BatchSizes}

NoChanges == [create |-> <<>>, update_old |-> <<>>, update_new |-> <<>>, delete |-> <<>>]

(* `creates`, `deletes`, `updates = list(zip(update_olds, update_news))` *)
creates == changes.create
deletes == changes.delete
updates ==
  [k \in 1..Min(Len(changes.update_old), Len(changes.update_new)) |->
     <<changes.update_old[k], changes.update_new[k]>>]

(* set(list) *)
set(list) == {list[k] : k \in DOMAIN list}

(* IpDnsRecord as the device lists it: `.id`, name, type and the field of   *)
(* its type                                                                  *)
NoRecord == [type |-> "none"]

(* The record classes: the fields of BaseIpDnsRecord, `type`, and the field *)
(* of the type (of the classes with further fields, FWD, MX, NS and SRV, the *)
(* model has no record)                                                      *)
IpDnsRecord(id, disabled, match_subdomain, name, ttl, type, payload) ==
  IF type \in {"A", "AAAA"}
  THEN [id |-> id, disabled |-> disabled, match_subdomain |-> match_subdomain, name |-> name,
        ttl |-> ttl, type |-> type, address |-> payload]
  ELSE IF type = "CNAME"
  THEN [id |-> id, disabled |-> disabled, match_subdomain |-> match_subdomain, name |-> name,
        ttl |-> ttl, type |-> type, cname |-> payload]
  ELSE IF type = "TXT"
  THEN [id |-> id, disabled |-> disabled, match_subdomain |-> match_subdomain, name |-> name,
        ttl |-> ttl, type |-> type, text |-> payload]
  ELSE [id |-> id, disabled |-> disabled, match_subdomain |-> match_subdomain, name |-> name,
        ttl |-> ttl, type |-> type]

IpDnsARecord(id, address) == IpDnsRecord(id, FALSE, FALSE, "a.lan", "1d", "A", address)

(* What the device may hold when apply_changes lists it *)
Listings ==
  { <<>>,
    <<IpDnsARecord("*1", "10.0.0.5")>>,
    <<IpDnsARecord("*1", "10.0.0.5"), IpDnsARecord("*2", "10.0.0.6")>> }

(* The position of apply_changes: the loop it is in, the index of the       *)
(* endpoint (or update pair) and of the target, the targets left of the set  *)
(* it iterates over, the client call it awaits, the last log_action entry,   *)
(* and the status the webhook answers with.                                  *)
NoAction == [action |-> "", endpoint |-> 0, target |-> "", record |-> NoRecord]
IdleApply == [pc |-> "idle", i |-> 0, j |-> 0, todo |-> {}, awaiting |-> "", last |-> NoAction, http |-> 0]

(* Connection.__init__ *)
Init ==
  /\ stream = 0
  /\ closed_event = TRUE
  /\ idle = 0
  /\ responses = {}
  /\ background_tasks = <<>>
  /\ lockOwner = NoTask
  /\ lockQ = <<>>
  /\ resp = [t \in 1..MaxTag |-> NoResponse]
  /\ nextTag = 1
  /\ reader = [g \in Gens |-> "none"]
  /\ monitor = [g \in Gens |-> "none"]
  /\ caller = [c \in Callers |-> IdleCaller]
  /\ closer = [k \in Closers |-> FreeCloser]
  /\ sockets = {}
  /\ paused = FALSE
  /\ wire = <<>>
  /\ received = {}
  /\ net = <<>>
  /\ devSent = [t \in 1..MaxTag |-> <<>>]
  /\ devDone = {}
  /\ session = "none"
  /\ faults = 0
  /\ pauses = 0
  /\ userCloses = 0
  /\ response = Response(Tag(1))
  /\ call = NoCall
  /\ changes = NoChanges
  /\ record_map = <<>>
  /\ apply = IdleApply
  /\ calls = <<>>
  /\ in_flight = 0
  /\ client_response = NoResponse
  /\ applied = NoApplied

(* ---- the environment ---- *)
(* What the environment may do to a run besides answering: socket and device *)
(* faults, the transport pausing, a close() call from outside.               *)
Disturbances == faults + pauses + userCloses
MayDisturb == Disturbances < MaxDisturbances

(* ---- asyncio.Lock ---- *)
(* A lock that excludes nobody *)
Unlocked == TRUE

LockFree == lockOwner = NoTask /\ lockQ = <<>>

(* `async with` left: the first waiter, if any, is the next holder *)
ReleaseLock ==
  /\ lockOwner' = IF lockQ # <<>> THEN Head(lockQ) ELSE NoTask
  /\ lockQ' = IF lockQ # <<>> THEN Tail(lockQ) ELSE <<>>

KeepLock(task) == lockOwner' = task /\ lockQ' = lockQ

WaitLock(task) == lockOwner' = lockOwner /\ lockQ' = Append(lockQ, task)

(* ---- asyncio.create_task(self.close()) ---- *)
FreeClosers == {k \in Closers : closer[k].pc = "free"}
NewCloser == CHOOSE k \in FreeClosers : \A j \in FreeClosers : k <= j
CanSpawnClose == FreeClosers # {}
SpawnClose(cl) == [cl EXCEPT ![NewCloser] = [pc |-> "start", await |-> ""]]

(* A created task starts in the event loop's next iteration, before the loop *)
(* handles a timer or socket event that comes after: such events are handled *)
(* only when no created close() is still to start.                           *)
Polling == \A k \in Closers : closer[k].pc # "start"

(* ---- objects nothing refers to any more ---- *)
(* A Response is referred to by the pending map and by the send() that made *)
(* it; the sentences the device sent are remembered as long as it is.        *)
Live(pending, callers) == pending \cup {callers[c].tag : c \in Callers}
Collect(f, live, empty) == [t \in DOMAIN f |-> IF t \in live THEN f[t] ELSE empty]

(* ---- write_sentence / write_word ---- *)
(* The wire after `word` of request t is written (writer.write) to a socket   *)
(* that is open (`up`) or that the program closed: words written to a closed  *)
(* socket are dropped.  With the empty word the device has the sentence, and  *)
(* knows the tags in it.                                                      *)
write_word(st, up, t, word) ==
  IF ~up THEN st
  ELSE IF word = EmptyWord
    THEN [wire |-> <<>>,
          received |-> st.received \cup {u \in 1..MaxTag :
                          \E i \in 1..Len(st.wire) : st.wire[i].word = ApiWord(".tag", Tag(u))}]
    ELSE [wire |-> Append(st.wire, [req |-> t, word |-> word]), received |-> st.received]

(* write_sentence for words i..n of `sentence`, no drain() suspending between *)
RECURSIVE write_sentence(_, _, _, _, _, _)
write_sentence(st, up, t, sentence, i, n) ==
  IF i > n THEN st ELSE write_sentence(write_word(st, up, t, sentence[i]), up, t, sentence, i + 1, n)

(* The words of a sentence, from word i on, that write_sentence may write     *)
(* before a drain() suspends: all of them while the transport is not paused;  *)
(* fewer when this write fills the transport's buffer and it pauses; one when *)
(* it is paused already, or closing (drain() then sleeps once).               *)
WriteUpTo(up, sentence, i) ==
  IF ~up \/ paused THEN {i}
  ELSE {Len(sentence)} \cup (IF MayDisturb THEN i..(Len(sentence) - 1) ELSE {})

(* Task c writes words i..n of the sentence of request t and then either      *)
(* suspends in drain() or, after the last word, in wait_until_complete().     *)
Write(c, g, up, t, sentence, i, n, login) ==
  LET st == write_sentence([wire |-> wire, received |-> received], up, t, sentence, i, n)
      more == n < Len(sentence)
  IN /\ wire' = st.wire
     /\ received' = st.received
     /\ paused' = (paused \/ (more /\ up))
     /\ pauses' = IF more /\ up /\ ~paused THEN pauses + 1 ELSE pauses
     /\ caller' = [caller EXCEPT ![c] =
                     [pc |-> IF more THEN (IF login THEN "login_drain" ELSE "drain")
                             ELSE (IF login THEN "login_wait" ELSE "waiting"),
                      stream |-> g, tag |-> t, idx |-> n + 1, result |-> "none"]]

(* ---- Connection.send / Connection.open ---- *)

(* send() from `request = Request(...)` to its first suspension: a fresh tag, *)
(* the Response registered, then write_sentence.  The response this task held *)
(* before (the /login response) is dropped.                                   *)
SendBegin(c, g, words) ==
  LET old == caller[c].tag
      keep == Live(responses, caller) \ (IF old \in responses THEN {} ELSE {old})
      sentence == get_sentence(words, Tag(nextTag))
  IN
  /\ resp' = [Collect(resp, keep, NoResponse) EXCEPT ![nextTag] = Response(Tag(nextTag))]
  /\ devSent' = Collect(devSent, keep, <<>>)
  /\ responses' = responses \cup {nextTag}
  /\ \E n \in WriteUpTo(TRUE, sentence, 1) : Write(c, g, TRUE, nextTag, sentence, 1, n, FALSE)
  /\ nextTag' = nextTag + 1

(* open() inside `async with self.stream_lock`, up to its first suspension: *)
(* either `return self.stream` (and send() goes on to its first suspension), *)
(* or `await asyncio.open_connection(...)` with the lock held.               *)
OpenCritical(c) ==
  /\ idle' = 0
  /\ IF stream # 0
     THEN /\ ReleaseLock
          /\ SendBegin(c, stream, PrintWords)
          /\ UNCHANGED <<stream, closed_event, background_tasks, taskVars, closer, sockets,
                         net, devDone, session, faults, userCloses, unitVars>>
     ELSE /\ KeepLock(SendTask(c))
          /\ caller' = [caller EXCEPT ![c] = [IdleCaller EXCEPT !.pc = "dialing"]]
          /\ UNCHANGED <<stream, closed_event, responses, background_tasks, resp, nextTag, taskVars,
                         closer, sockets, wireVars, devVars, userCloses, unitVars>>

(* Fresh tags the calls under way may still take: a send() that has not      *)
(* passed open() may have to log in first.                                   *)
TagsReserved ==
  2 * Cardinality({c \in Callers : caller[c].pc \in {"lockwait", "dialing"}})
    + Cardinality({c \in Callers : caller[c].pc \in {"login_drain", "login_wait"}})

(* A caller calls send(): `stream or await self.open()` *)
Send(c) ==
  /\ caller[c].pc = "idle"
  /\ nextTag + TagsReserved + (IF LockFree /\ stream # 0 THEN 0 ELSE 1) <= MaxTag
  /\ IF LockFree
     THEN OpenCritical(c)
     ELSE /\ WaitLock(SendTask(c))
          /\ caller' = [caller EXCEPT ![c] = [IdleCaller EXCEPT !.pc = "lockwait"]]
          /\ UNCHANGED <<connVars, nextTag, taskVars, closer, sockets, wireVars, devVars, userCloses, unitVars>>

(* The lock is handed to a caller that waited for it in open() *)
OpenGranted(c) ==
  /\ caller[c].pc = "lockwait"
  /\ lockOwner = SendTask(c)
  /\ OpenCritical(c)

(* asyncio.open_connection returned: the socket, the closed signal cleared, *)
(* the two background tasks created, and the /login send() up to its first  *)
(* suspension.                                                               *)
DialOk(c) ==
  /\ Polling
  /\ caller[c].pc = "dialing"
  /\ stream' = nextTag
  /\ sockets' = sockets \cup {nextTag}
  /\ closed_event' = FALSE
  /\ background_tasks' = <<"monitor", "reader">>
  /\ monitor' = [monitor EXCEPT ![nextTag] = "run"]
  /\ reader' = [reader EXCEPT ![nextTag] = "run"]
  /\ resp' = [resp EXCEPT ![nextTag] = Response(Tag(nextTag))]
  /\ responses' = responses \cup {nextTag}
  /\ LET sentence == get_sentence(LoginWords, Tag(nextTag)) IN
       \E n \in WriteUpTo(TRUE, sentence, 1) : Write(c, nextTag, TRUE, nextTag, sentence, 1, n, TRUE)
  /\ nextTag' = nextTag + 1
  /\ session' = "new"
  /\ UNCHANGED <<idle, lockVars, closer, net, devSent, devDone, faults, userCloses, unitVars>>

(* asyncio.open_connection raised: open() and send() raise, the lock is     *)
(* released, nothing else was touched.                                      *)
DialFail(c) ==
  /\ Polling
  /\ caller[c].pc = "dialing"
  /\ MayDisturb
  /\ faults' = faults + 1
  /\ ReleaseLock
  /\ caller' = [caller EXCEPT ![c] = [IdleCaller EXCEPT !.result = "raised"]]
  /\ UNCHANGED <<connVars, nextTag, taskVars, closer, sockets, wireVars, net, devSent, devDone, session, session, userCloses, unitVars>>

(* drain() returned: write_sentence goes on with the next words *)
WriteMore(c) ==
  /\ caller[c].pc \in {"drain", "login_drain"}
  /\ LET g == caller[c].stream
         login == caller[c].pc = "login_drain"
         sentence == get_sentence(IF login THEN LoginWords ELSE PrintWords, Tag(caller[c].tag))
     IN /\ g \in sockets => ~paused
        /\ \E n \in WriteUpTo(g \in sockets, sentence, caller[c].idx) :
             Write(c, g, g \in sockets, caller[c].tag, sentence, caller[c].idx, n, login)
  /\ UNCHANGED <<connVars, lockVars, nextTag, taskVars, closer, sockets, devVars, userCloses, unitVars>>

(* drain() on a socket the program closed raises ConnectionResetError: send() raises *)
WriteRaise(c) ==
  /\ caller[c].pc = "drain"
  /\ caller[c].stream \notin sockets
  /\ caller' = [caller EXCEPT ![c] = [IdleCaller EXCEPT !.result = "raised"]]
  /\ resp' = Collect(resp, Live(responses, caller'), NoResponse)
  /\ devSent' = Collect(devSent, Live(responses, caller'), <<>>)
  /\ UNCHANGED <<stream, closed_event, idle, responses, background_tasks, lockVars, nextTag, taskVars,
                 closer, sockets, wireVars, net, devDone, session, faults, userCloses, unitVars>>

(* The transport's buffer has drained: it resumes writing *)
Resume ==
  /\ Polling
  /\ paused
  /\ paused' = FALSE
  /\ UNCHANGED <<connVars, lockVars, nextTag, taskVars, caller, closer, sockets, wire, received,
                 pauses, devVars, userCloses, unitVars>>

(* The /login response completed: open() checks it and returns the stream   *)
(* (send() goes on to its first suspension), or schedules close() and       *)
(* raises.                                                                   *)
LoginDone(c) ==
  /\ caller[c].pc = "login_wait"
  /\ is_complete(resp[caller[c].tag])
  /\ ReleaseLock
  /\ IF raise_for_error(resp[caller[c].tag]) = "ok"
     THEN /\ SendBegin(c, stream, PrintWords)
          /\ closer' = closer
     ELSE /\ CanSpawnClose
          /\ closer' = SpawnClose(closer)
          /\ caller' = [caller EXCEPT ![c] = [IdleCaller EXCEPT !.result = "raised"]]
          /\ resp' = Collect(resp, Live(responses, caller'), NoResponse)
          /\ devSent' = Collect(devSent, Live(responses, caller'), <<>>)
          /\ UNCHANGED <<responses, nextTag, wireVars>>
  /\ UNCHANGED <<stream, closed_event, idle, background_tasks, taskVars, sockets, net, devDone, session,
                 faults, userCloses, unitVars>>

(* wait_until_complete() returned: send() returns its response *)
SendReturn(c) ==
  /\ caller[c].pc = "waiting"
  /\ is_complete(resp[caller[c].tag])
  /\ caller' = [caller EXCEPT ![c] = [IdleCaller EXCEPT !.result = "returned"]]
  /\ resp' = Collect(resp, Live(responses, caller'), NoResponse)
  /\ devSent' = Collect(devSent, Live(responses, caller'), <<>>)
  /\ UNCHANGED <<stream, closed_event, idle, responses, background_tasks, lockVars, nextTag, taskVars,
                 closer, sockets, wireVars, net, devDone, session, faults, userCloses, unitVars>>


(* ---- the background reader: run_background_read / read / read_sentence ---- *)

(* read_sentence's loop body for one word that is not the empty word *)
read_sentence_word(sentence, word) ==
  IF word[1] = "!" THEN ResponseSentence(word[2])
  ELSE IF sentence # NoSentence /\ word[1] = "="
    THEN [sentence EXCEPT !.attributes = DictSet(@, word[2], word[3])]
  ELSE IF sentence # NoSentence /\ word[1] = "."
    THEN [sentence EXCEPT !.api_attributes = DictSet(@, word[2], word[3])]
  ELSE sentence

(* read_sentence over the words read_word returned before an empty word *)
RECURSIVE read_sentence(_, _)
read_sentence(sentence, words) ==
  IF words = <<>> THEN sentence
  ELSE read_sentence(read_sentence_word(sentence, Head(words)), Tail(words))

FirstEmpty(words) == CHOOSE k \in 1..Len(words) : words[k] = EmptyWord /\ \A j \in 1..(k - 1) : words[j] # EmptyWord

(* A lookup that ignores the tag: the oldest pending response *)
OldestPending(tag) == IF responses = {} THEN 1 ELSE CHOOSE t \in responses : \A u \in responses : t <= u

TagNumber(tag) == CHOOSE t \in 1..MaxTag : Tag(t) = tag

(* A reader that takes a `!trap` for a failure of the connection *)
TrapFatal(sentence) == sentence.type = "!trap"

(* read() raises: no `.tag`, `self.responses[tag]` has no such key, or       *)
(* update_with_sentence refuses a complete response                          *)
ReadRaises(sentence) ==
  \/ ~DictHas(sentence.api_attributes, ".tag")
  \/ ~\E t \in responses : Tag(t) = DictGet(sentence.api_attributes, ".tag")
  \/ is_complete(resp[TagNumber(DictGet(sentence.api_attributes, ".tag"))])

(* The rest of read() after read_sentence returned `sentence`, and the      *)
(* reader loop's test of the closed signal.                                  *)
Dispatch(g, sentence) ==
  IF sentence = NoSentence
  THEN /\ reader' = [reader EXCEPT ![g] = IF closed_event THEN "done" ELSE "run"]
       /\ UNCHANGED <<idle, resp, responses>>
  ELSE /\ idle' = 0
       /\ IF ReadRaises(sentence)
          THEN /\ reader' = [reader EXCEPT ![g] = "failed"]
               /\ UNCHANGED <<resp, responses>>
          ELSE LET t == TagNumber(DictGet(sentence.api_attributes, ".tag"))
                   r == update_with_sentence(resp[t], sentence)
               IN /\ resp' = [resp EXCEPT ![t] = r]
                  /\ responses' = IF is_complete(r) THEN responses \ {t} ELSE responses
                  /\ reader' = [reader EXCEPT ![g] = IF closed_event THEN "done" ELSE "run"]

(* read_sentence read the words up to the next empty word the device sent *)
ReadSentence(g) ==
  /\ Polling
  /\ reader[g] = "run"
  /\ stream = g
  /\ net # <<>>
  /\ LET k == FirstEmpty(net) IN
     /\ net' = SubSeq(net, k + 1, Len(net))
     /\ Dispatch(g, read_sentence(NoSentence, SubSeq(net, 1, k - 1)))
  /\ UNCHANGED <<stream, closed_event, background_tasks, lockVars, nextTag, monitor, caller, closer,
                 sockets, wireVars, devSent, devDone, session, faults, userCloses, unitVars>>

(* read_word's one-second wait for the first length byte of the next word   *)
(* timed out after n words of a sentence: it returns the empty word.  The    *)
(* network held the rest of the sentence back for a second.                  *)
ReadStall(g, n) ==
  /\ Polling
  /\ reader[g] = "run"
  /\ stream = g
  /\ net # <<>>
  /\ n < FirstEmpty(net)
  /\ MayDisturb
  /\ faults' = faults + 1
  /\ net' = SubSeq(net, n + 1, Len(net))
  /\ Dispatch(g, read_sentence(NoSentence, SubSeq(net, 1, n)))
  /\ UNCHANGED <<stream, closed_event, background_tasks, lockVars, nextTag, monitor, caller, closer,
                 sockets, wireVars, devSent, devDone, session, userCloses, unitVars>>

(* read_word's one-second wait timed out with no word of a sentence read *)
ReadTimeout(g) ==
  /\ Polling
  /\ reader[g] = "run"
  /\ stream = g
  /\ Dispatch(g, NoSentence)
  /\ UNCHANGED <<stream, closed_event, background_tasks, lockVars, nextTag, monitor, caller, closer,
                 sockets, wireVars, devVars, userCloses, unitVars>>

(* reader.readexactly raised (the peer closed or reset the socket): the      *)
(* reader task ends with that exception                                      *)
ReadError(g) ==
  /\ Polling
  /\ reader[g] = "run"
  /\ stream = g
  /\ g \in sockets
  /\ MayDisturb
  /\ faults' = faults + 1
  /\ reader' = [reader EXCEPT ![g] = "failed"]
  /\ UNCHANGED <<connVars, lockVars, nextTag, monitor, caller, closer, sockets, wireVars,
                 net, devSent, devDone, session, session, userCloses, unitVars>>

(* ---- the idle monitor: run_background_idle_monitor / is_idle ---- *)
is_idle == idle >= IdleTimeout

MonitorStep(g) ==
  /\ Polling
  /\ monitor[g] = "run"
  /\ IF closed_event
     THEN /\ monitor' = [monitor EXCEPT ![g] = "done"]
          /\ closer' = closer
     ELSE IF ~is_idle
     THEN UNCHANGED <<monitor, closer>>
     ELSE /\ CanSpawnClose
          /\ closer' = SpawnClose(closer)
          /\ monitor' = [monitor EXCEPT ![g] = "done"]
  /\ UNCHANGED <<connVars, lockVars, nextTag, reader, caller, sockets, wireVars, devVars, userCloses, unitVars>>

(* One second passes.  Only the idle monitor reads the clock, and open()     *)
(* resets idle_since before it starts one, so time counts from the dial on.  *)
Tick ==
  /\ Polling
  /\ idle < IdleTimeout
  /\ \/ \E g \in Gens : monitor[g] = "run"
     \/ \E c \in Callers : caller[c].pc = "dialing"
  /\ idle' = idle + 1
  /\ UNCHANGED <<stream, closed_event, responses, background_tasks, resp, lockVars, nextTag, taskVars,
                 caller, closer, sockets, wireVars, devVars, userCloses, unitVars>>


(* ---- Connection.close ---- *)
TaskState(kind) == IF kind = "reader" THEN reader[stream] ELSE monitor[stream]

(* `while self.background_tasks: task = pop(); await task` from the list     *)
(* `tasks` on, as far as it runs without suspending: awaiting a finished     *)
(* task returns at once, or raises the exception the task ended with.        *)
RECURSIVE Join(_)
Join(tasks) ==
  IF tasks = <<>> THEN [tasks |-> tasks, await |-> "", raised |-> FALSE]
  ELSE LET task == tasks[Len(tasks)]
           rest == SubSeq(tasks, 1, Len(tasks) - 1)
       IN IF TaskState(task) = "failed" THEN [tasks |-> rest, await |-> "", raised |-> TRUE]
          ELSE IF TaskState(task) = "done" THEN Join(rest)
          ELSE [tasks |-> rest, await |-> task, raised |-> FALSE]

(* `while self.responses: popitem(); response.cancel()` *)
CancelAll(rs) == [t \in DOMAIN rs |-> IF t \in responses THEN cancel(rs[t]) ELSE rs[t]]

(* close() from the join loop on, up to its next suspension: the loop, then *)
(* writer.close() and `await writer.wait_closed()`.                          *)
CloseJoin(k, tasks) ==
  LET j == Join(tasks) IN
  /\ background_tasks' = j.tasks
  /\ IF j.raised
     THEN /\ ReleaseLock
          /\ closer' = [closer EXCEPT ![k] = FreeCloser]
          /\ UNCHANGED <<sockets, paused, wire, received, net, devDone, session>>
     ELSE IF j.await # ""
     THEN /\ KeepLock(CloseTask(k))
          /\ closer' = [closer EXCEPT ![k] = [pc |-> "join", await |-> j.await]]
          /\ UNCHANGED <<sockets, paused, wire, received, net, devDone, session>>
     ELSE /\ KeepLock(CloseTask(k))
          /\ closer' = [closer EXCEPT ![k] = [pc |-> "wait_closed", await |-> ""]]
          /\ sockets' = sockets \ {stream}
          /\ paused' = FALSE
          /\ wire' = <<>>
          /\ received' = {}
          /\ net' = <<>>
          /\ devDone' = {}
          /\ session' = "none"

(* close() inside `async with self.stream_lock`, up to its first suspension *)
CloseCritical(k) ==
  IF closed_event
  THEN /\ ReleaseLock
       /\ closer' = [closer EXCEPT ![k] = FreeCloser]
       /\ UNCHANGED <<closed_event, background_tasks, sockets, paused, wire, received, net, devDone, session>>
  ELSE /\ closed_event' = TRUE
       /\ CloseJoin(k, background_tasks)

(* A scheduled close() starts running: `async with self.stream_lock` *)
CloseStart(k) ==
  /\ closer[k].pc = "start"
  /\ IF LockFree
     THEN CloseCritical(k)
     ELSE /\ WaitLock(CloseTask(k))
          /\ closer' = [closer EXCEPT ![k] = [pc |-> "lockwait", await |-> ""]]
          /\ UNCHANGED <<closed_event, background_tasks, sockets, paused, wire, received, net, devDone, session>>
  /\ UNCHANGED <<stream, idle, responses, resp, nextTag, taskVars, caller, devSent,
                 faults, pauses, userCloses, unitVars>>

(* The lock is handed to a close() that waited for it *)
CloseGranted(k) ==
  /\ closer[k].pc = "lockwait"
  /\ lockOwner = CloseTask(k)
  /\ CloseCritical(k)
  /\ UNCHANGED <<stream, idle, responses, resp, nextTag, taskVars, caller, devSent,
                 faults, pauses, userCloses, unitVars>>

(* The background task close() awaits has finished *)
CloseJoined(k) ==
  /\ closer[k].pc = "join"
  /\ TaskState(closer[k].await) \in {"done", "failed"}
  /\ CloseJoin(k, Append(background_tasks, closer[k].await))
  /\ UNCHANGED <<stream, closed_event, idle, responses, resp, nextTag, taskVars, caller, devSent,
                 faults, pauses, userCloses, unitVars>>

(* wait_closed() returned: the stream is dropped and every pending response *)
(* cancelled; the finished background tasks are gone with the list.          *)
CloseFinish(k) ==
  /\ closer[k].pc = "wait_closed"
  /\ stream' = 0
  /\ resp' = Collect(CancelAll(resp), Live({}, caller), NoResponse)
  /\ devSent' = Collect(devSent, Live({}, caller), <<>>)
  /\ responses' = {}
  /\ reader' = [g \in Gens |-> "none"]
  /\ monitor' = [g \in Gens |-> "none"]
  /\ ReleaseLock
  /\ closer' = [closer EXCEPT ![k] = FreeCloser]
  /\ UNCHANGED <<closed_event, idle, background_tasks, nextTag, caller, sockets, wireVars,
                 net, devDone, session, faults, userCloses, unitVars>>

(* Some task of the program calls close() itself *)
UserClose ==
  /\ MayDisturb
  /\ CanSpawnClose
  /\ userCloses' = userCloses + 1
  /\ closer' = SpawnClose(closer)
  /\ UNCHANGED <<connVars, lockVars, nextTag, taskVars, caller, sockets, wireVars, devVars, unitVars>>

(* ---- the device at the other end of the socket ---- *)
SocketUp == stream # 0 /\ stream \in sockets

ReplyAttributes(type) ==
  IF type = "!re" THEN {<<"name", "a.lan">>}
  ELSE IF type = "!trap" THEN {<<"message", "failure">>}
  ELSE {}

ReplySentence(type, tag) == [type |-> type, attributes |-> ReplyAttributes(type), api_attributes |-> {<<".tag", tag>>}]

RECURSIVE AttributeWords(_)
AttributeWords(d) ==
  IF d = {} THEN <<>>
  ELSE LET p == CHOOSE x \in d : TRUE IN <<AttrWord(p[1], p[2])>> \o AttributeWords(d \ {p})

SentenceWords(s) ==
  <<TypeWord(s.type)>> \o AttributeWords(s.attributes)
    \o (IF DictHas(s.api_attributes, ".tag") THEN <<ApiWord(".tag", DictGet(s.api_attributes, ".tag"))>> ELSE <<>>)
    \o <<EmptyWord>>

(* The device answers a request it has received with one more sentence *)
DeviceReply(t, type) ==
  /\ SocketUp
  /\ t \in received \ devDone
  /\ Len(devSent[t]) < MaxReplies
  /\ type = "!done" \/ Len(devSent[t]) < MaxReplies - 1
  /\ LET s == ReplySentence(type, Tag(t)) IN
     /\ net' = net \o SentenceWords(s)
     /\ devSent' = [devSent EXCEPT ![t] = Append(@, s)]
  /\ devDone' = IF type = "!done" THEN devDone \cup {t} ELSE devDone
  /\ session' = IF t # stream THEN session
                ELSE IF type = "!trap" THEN "rejected"
                ELSE IF type = "!done" /\ session = "new" THEN "ok"
                ELSE session
  /\ UNCHANGED <<connVars, lockVars, nextTag, taskVars, caller, closer, sockets, wireVars,
                 faults, userCloses, unitVars>>

(* The device breaks the protocol: a sentence without `.tag`, or one more   *)
(* sentence for a request it already answered with !done                    *)
DeviceFault(tag) ==
  /\ SocketUp
  /\ MayDisturb
  /\ faults' = faults + 1
  /\ tag = "" \/ \E t \in devDone : Tag(t) = tag
  /\ net' = net \o SentenceWords([type |-> "!re", attributes |-> {},
                                  api_attributes |-> IF tag = "" THEN {} ELSE {<<".tag", tag>>}])
  /\ UNCHANGED <<connVars, lockVars, nextTag, taskVars, caller, closer, sockets, wireVars,
                 devSent, devDone, session, userCloses, unitVars>>

(* ---- a Response object on its own ---- *)
(* The sentences handed to a Response: each type, without attributes, with  *)
(* a `message` and with another attribute                                    *)
DeviceSentences ==
  {[type |-> type, attributes |-> attributes, api_attributes |-> {<<".tag", Tag(1)>>}] :
     type \in {"!re", "!trap", "!done"},
     attributes \in {{}, {<<"message", "failure">>}, {<<"name", "a.lan">>}}}

(* response.update_with_sentence(s) *)
CallUpdate(s) ==
  /\ Len(response.sentences) < MaxSentences
  /\ response' = update_with_sentence(response, s)
  /\ call' = [method |-> "update_with_sentence", sentence |-> s, raised |-> is_complete(response),
              error |-> IF is_complete(response) THEN "response is complete" ELSE "", result |-> <<>>]
  /\ UNCHANGED <<connVars, lockVars, nextTag, taskVars, caller, closer, sockets, wireVars, devVars, userCloses, provVars, applied>>

(* response.cancel() *)
CallCancel ==
  /\ Len(response.sentences) < MaxSentences
  /\ response' = cancel(response)
  /\ call' = [method |-> "cancel", sentence |-> NoSentence, raised |-> is_complete(response),
              error |-> IF is_complete(response) THEN "rresponse is complete" ELSE "", result |-> <<>>]
  /\ UNCHANGED <<connVars, lockVars, nextTag, taskVars, caller, closer, sockets, wireVars, devVars, userCloses, provVars, applied>>

(* response.raise_for_error() *)
CallRaiseForError ==
  /\ call' = [method |-> "raise_for_error", sentence |-> NoSentence,
              raised |-> raise_for_error(response) # "ok",
              error |-> IF raise_for_error(response) = "RuntimeError" THEN "response in progress"
                        ELSE IF raise_for_error(response) = "ResponseError" THEN "ResponseError"
                        ELSE "",
              result |-> IF raise_for_error(response) = "ResponseError"
                         THEN ResponseError(response).messages ELSE <<>>]
  /\ UNCHANGED <<response, connVars, lockVars, nextTag, taskVars, caller, closer, sockets, wireVars, devVars, userCloses, provVars, applied>>

(* response.get_data() *)
CallGetData ==
  /\ call' = [method |-> "get_data", sentence |-> NoSentence, raised |-> get_data(response).error # "",
              error |-> get_data(response).error, result |-> get_data(response).data]
  /\ UNCHANGED <<response, connVars, lockVars, nextTag, taskVars, caller, closer, sockets, wireVars, devVars, userCloses, provVars, applied>>

(* response.get_error_data() *)
CallGetErrorData ==
  /\ call' = [method |-> "get_error_data", sentence |-> NoSentence, raised |-> get_error_data(response).error # "",
              error |-> get_error_data(response).error, result |-> get_error_data(response).data]
  /\ UNCHANGED <<response, connVars, lockVars, nextTag, taskVars, caller, closer, sockets, wireVars, devVars, userCloses, provVars, applied>>

(* What a call of a helper function leaves alone *)
helperFrame == <<connVars, lockVars, nextTag, taskVars, caller, closer, sockets, wireVars, devVars,
                 userCloses, response, call, provVars>>

(* ---- str and int of Python ---- *)
(* A str is kept as the sequence of its characters where the code looks     *)
(* into it.  An int of Python has no width: a number of seconds n is kept    *)
(* by its quotient and remainder by 86400, [days, seconds].                  *)
SecondsPerDay == 86400
Seconds(days, seconds) ==
  [days |-> days + seconds \div SecondsPerDay, seconds |-> seconds % SecondsPerDay]

DigitChars == <<"0", "1", "2", "3", "4", "5", "6", "7", "8", "9">>
IsDigit(c) == \E k \in DOMAIN DigitChars : DigitChars[k] = c
DigitValue(c) == (CHOOSE k \in DOMAIN DigitChars : DigitChars[k] = c) - 1

(* str(k) of an int k >= 0 *)
RECURSIVE str(_)
str(k) == IF k < 10 THEN <<DigitChars[k + 1]>> ELSE str(k \div 10) \o <<DigitChars[(k % 10) + 1]>>

(* int(digits) *)
RECURSIVE int(_)
int(digits) ==
  IF digits = <<>> THEN 0 ELSE 10 * int(SubSeq(digits, 1, Len(digits) - 1)) + DigitValue(digits[Len(digits)])

(* The characters as one string *)
RECURSIVE TextFrom(_, _)
TextFrom(chars, i) == IF i > Len(chars) THEN "" ELSE chars[i] \o TextFrom(chars, i + 1)

Text(chars) == CHOOSE text \in {TextFrom(c, 1) : c \in {chars}} : TRUE

(* ---- provider.py: to_routeros_ttl, to_external_dns_ttl ---- *)
(* datetime.timedelta(seconds=n): days and seconds of the day, OverflowError *)
(* beyond 999999999 days                                                      *)
MaxTimedeltaDays == 999999999
OverflowError == [error |-> "OverflowError"]
timedelta(n) == IF n.days > MaxTimedeltaDays THEN OverflowError ELSE [days |-> n.days, seconds |-> n.seconds]

(* The minutes taken from the whole of td.seconds *)
MinutesOfDay(td) == td.seconds \div 60

MinutesOfHour(td) == (td.seconds % (60 * 60)) \div 60

to_routeros_ttl(external_dns_ttl) ==
  LET td == timedelta(external_dns_ttl)
  IN IF td = OverflowError THEN OverflowError
     ELSE LET w == td.days \div 7
              d == td.days % 7
              h == td.seconds \div (60 * 60)
              m == MinutesOfHour(td)
              s == td.seconds % 60
          IN str(w) \o <<"w">> \o str(d) \o <<"d">> \o str(h) \o <<"h">> \o str(m) \o <<"m">>
               \o str(s) \o <<"s">>

(* One group `([0-9]+<key>)?` of the regex at position pos: the digits it   *)
(* matched and where the next group starts                                   *)
RECURSIVE DigitsEnd(_, _)
DigitsEnd(text, pos) ==
  IF pos <= Len(text) /\ IsDigit(text[pos]) THEN DigitsEnd(text, pos + 1) ELSE pos

Group(text, pos, key) ==
  LET end == DigitsEnd(text, pos)
  IN IF end > pos /\ end <= Len(text) /\ text[end] = key
     THEN [str_val |-> SubSeq(text, pos, end - 1), next |-> end + 1]
     ELSE [str_val |-> <<"0">>, next |-> pos]

to_external_dns_ttl(mikrotik_ttl) ==
  LET w == Group(mikrotik_ttl, 1, "w")
      d == Group(mikrotik_ttl, w.next, "d")
      h == Group(mikrotik_ttl, d.next, "h")
      m == Group(mikrotik_ttl, h.next, "m")
      s == Group(mikrotik_ttl, m.next, "s")
  IN Seconds(int(d.str_val) + int(w.str_val) * 7,
         int(s.str_val) + int(m.str_val) * 60 + int(h.str_val) * 60 * 60)

(* The numbers of seconds the functions are called with *)
TtlDays == {0, 1, 6, 7, 8, 13, 14, 365, MaxTimedeltaDays, MaxTimedeltaDays + 1}
TtlSeconds == {0, 1, 59, 60, 61, 3599, 3600, 3601, 3661, 7200, 43200, 86399}

(* to_external_dns_ttl(to_routeros_ttl(n)) *)
TtlRoundTrip(n) ==
  /\ applied' = [fn |-> "to_routeros_ttl", arg |-> n,
                 out |-> LET ttl == to_routeros_ttl(n)
                         IN IF ttl = OverflowError THEN [raised |-> TRUE, ttl |-> <<>>, back |-> Seconds(0, 0)]
                            ELSE [raised |-> FALSE, ttl |-> ttl, back |-> to_external_dns_ttl(ttl)]]
  /\ UNCHANGED helperFrame

(* ---- provider.py: RecordMap, to_routeros_record ---- *)
(* RecordMap.__init__: the records grouped by name, in listing order *)
RecordMap(records) ==
  [n \in {records[k].name : k \in DOMAIN records} |-> SelectSeq(records, LAMBDA r : r.name = n)]

Matches(item, target) ==
  \/ item.type = "A" /\ item.address = target
  \/ item.type = "CNAME" /\ item.cname = target
  \/ item.type = "TXT" /\ item.text = target

(* A find that returns the last matching record of the name *)
find_last(data, endpoint, target) ==
  LET items == IF endpoint.dns_name \in DOMAIN data THEN data[endpoint.dns_name] ELSE <<>>
      hits == {k \in DOMAIN items : Matches(items[k], target)}
  IN IF hits = {} THEN NoRecord ELSE items[CHOOSE k \in hits : \A l \in hits : k >= l]

(* RecordMap.find *)
find(data, endpoint, target) ==
  LET items == IF endpoint.dns_name \in DOMAIN data THEN data[endpoint.dns_name] ELSE <<>>
      hits == {k \in DOMAIN items : Matches(items[k], target)}
  IN IF hits = {} THEN NoRecord ELSE items[CHOOSE k \in hits : \A l \in hits : k <= l]

(* The characters of the targets and ttls of the model *)
Spelling ==
  [text \in {"10.0.0.5", "10.0.0.6", "10.0.0.7", "b.lan", "*.b.lan", "v=1", "::1",
             "1d", "1h", "5m", "1w1d1h1m1s", "90000s"} |->
     IF text = "10.0.0.5" THEN <<"1", "0", ".", "0", ".", "0", ".", "5">>
     ELSE IF text = "10.0.0.6" THEN <<"1", "0", ".", "0", ".", "0", ".", "6">>
     ELSE IF text = "10.0.0.7" THEN <<"1", "0", ".", "0", ".", "0", ".", "7">>
     ELSE IF text = "b.lan" THEN <<"b", ".", "l", "a", "n">>
     ELSE IF text = "*.b.lan" THEN <<"*", ".", "b", ".", "l", "a", "n">>
     ELSE IF text = "v=1" THEN <<"v", "=", "1">>
     ELSE IF text = "::1" THEN <<":", ":", "1">>
     ELSE IF text = "1d" THEN <<"1", "d">>
     ELSE IF text = "1h" THEN <<"1", "h">>
     ELSE IF text = "5m" THEN <<"5", "m">>
     ELSE IF text = "1w1d1h1m1s" THEN <<"1", "w", "1", "d", "1", "h", "1", "m", "1", "s">>
     ELSE <<"9", "0", "0", "0", "0", "s">>]

(* text.startswith(prefix) *)
startswith(text, prefix) == Len(text) >= Len(prefix) /\ SubSeq(text, 1, Len(prefix)) = prefix

(* The default for a recordTTL that is None only *)
DefaultForNone(record_ttl) == IF record_ttl = None THEN Seconds(0, 60 * 60 * 24) ELSE record_ttl

(* `endpoint.record_ttl or 60 * 60 * 24`: the default when it is None or 0 *)
TtlOrDefault(record_ttl) ==
  IF record_ttl = None \/ record_ttl = Seconds(0, 0) THEN Seconds(0, 60 * 60 * 24) ELSE record_ttl

(* to_routeros_record: a record of the endpoint's type for one target, or   *)
(* the exception raised: OverflowError out of to_routeros_ttl, or            *)
(* NotImplementedError                                                       *)
NotImplementedError == [type |-> "NotImplementedError"]

to_routeros_record(endpoint, target) ==
  LET ttl == to_routeros_ttl(TtlOrDefault(endpoint.record_ttl))
      match_subdomain == startswith(Spelling[target], <<"*", ".">>)
  IN IF ttl = OverflowError THEN [type |-> "OverflowError"]
     ELSE IF endpoint.record_type \in {"A", "CNAME", "TXT"}
     THEN IpDnsRecord(None, FALSE, match_subdomain, endpoint.dns_name, Text(ttl), endpoint.record_type, target)
     ELSE NotImplementedError

(* ---- mikrotik.py: Client ---- *)
(* The values of a dict of attributes: a str by its characters, an int, a   *)
(* bool, and None                                                            *)
Str(chars) == [kind |-> "str", value |-> chars]
Number(n) == [kind |-> "int", value |-> n]
Bool(b) == [kind |-> "bool", value |-> b]

(* str(value) *)
StrValue(value) ==
  IF value = None THEN <<"N", "o", "n", "e">>
  ELSE IF value.kind = "bool" THEN (IF value.value THEN <<"T", "r", "u", "e">> ELSE <<"F", "a", "l", "s", "e">>)
  ELSE IF value.kind = "int" THEN (IF value.value < 0 THEN <<"-">> \o str(-value.value) ELSE str(value.value))
  ELSE value.value

(* to_word_value: the characters of the word value; of a member of          *)
(* IpDnsRecordType, a (str, Enum), str() gives the qualified name (EnumStr)  *)
to_word_value(value) ==
  IF value = None THEN <<>>
  ELSE IF value.kind = "bool" THEN (IF value.value THEN <<"t", "r", "u", "e">> ELSE <<"f", "a", "l", "s", "e">>)
  ELSE StrValue(value)

(* to_attribute_words: the words, by their characters, of a dict given as   *)
(* its items in order                                                        *)
to_attribute_words(val) ==
  [i \in DOMAIN val |-> <<"=">> \o val[i][1] \o <<"=">> \o to_word_value(val[i][2])]

(* to_api_attribute_words of a dict: ValueError at the first key without    *)
(* the `.` prefix, the words otherwise                                       *)
ValueError == [raised |-> "ValueError", words |-> <<>>]

ApiAttributeWords(val) ==
  IF \E i \in DOMAIN val : ~startswith(val[i][1], <<".">>) THEN ValueError
  ELSE [raised |-> "", words |-> [i \in DOMAIN val |-> val[i][1] \o <<"=">> \o to_word_value(val[i][2])]]

EnumStr(type) == "IpDnsRecordType." \o type

(* The words of Client.add_ip_dns_record: the fields of model_dump, `id`    *)
(* excluded, in the order of their definition, by alias                      *)
AddWords(record) ==
  <<CmdWord("/ip/dns/static/add"),
    AttrWord("disabled", Text(to_word_value(Bool(record.disabled)))),
    AttrWord("match-subdomain", Text(to_word_value(Bool(record.match_subdomain)))),
    AttrWord("name", record.name),
    AttrWord("ttl", record.ttl),
    IF record.type = "A" THEN AttrWord("address", record.address)
    ELSE IF record.type = "CNAME" THEN AttrWord("cname", record.cname)
    ELSE AttrWord("text", record.text),
    AttrWord("type", EnumStr(record.type))>>

(* The words of Client.delete_ip_dns_record *)
(* An id without its `*` *)
Unstarred(id) == IF id = "*1" THEN "1" ELSE IF id = "*2" THEN "2" ELSE id

Numbers(id) == id

(* A remove that names the record by its name *)
RemoveByName(record) == <<CmdWord("/ip/dns/static/remove"), AttrWord("numbers", record.name)>>

RemoveWords(record) == <<CmdWord("/ip/dns/static/remove"), AttrWord("numbers", Numbers(record.id))>>

(* The field of a record class that holds what the record points to *)
PayloadKey(type) ==
  IF type \in {"A", "AAAA"} THEN "address" ELSE IF type = "CNAME" THEN "cname"
  ELSE IF type = "TXT" THEN "text" ELSE ""

(* `model_cls.validate_python` of one `!re` item: the record of the class   *)
(* its `type` selects, or ValidationError when the type is none of the       *)
(* union's or a required field is missing                                    *)
ValidationError == [type |-> "ValidationError"]

validate_python(item) ==
  LET type == IF DictHas(item, "type") THEN DictGet(item, "type") ELSE ""
      required == {"disabled", "name", "ttl"} \cup (IF PayloadKey(type) = "" THEN {} ELSE {PayloadKey(type)})
  IN IF type \notin {"A", "AAAA", "CNAME", "NXDOMAIN", "TXT"} \/ \E k \in required : ~DictHas(item, k)
     THEN ValidationError
     ELSE IpDnsRecord(IF DictHas(item, ".id") THEN DictGet(item, ".id") ELSE None,
                      DictGet(item, "disabled") = "true",
                      DictHas(item, "match-subdomain") /\ DictGet(item, "match-subdomain") = "true",
                      DictGet(item, "name"), DictGet(item, "ttl"), type,
                      IF PayloadKey(type) = "" THEN "" ELSE DictGet(item, PayloadKey(type)))

(* The items as they are *)
NoDefault(item, key, value) == item

(* item.setdefault(key, value) *)
setdefault(item, key, value) == IF DictHas(item, key) THEN item ELSE DictSet(item, key, value)

(* Client.list_ip_dns_records after raise_for_error: get_data, the default  *)
(* type, the records                                                         *)
list_ip_dns_records(r) ==
  LET raw == get_data(r).data
  IN [k \in DOMAIN raw |-> validate_python(setdefault(raw[k], "type", "A"))]

(* validate_python raised for one of the items *)
ListRaises(r) == \E k \in DOMAIN list_ip_dns_records(r) : list_ip_dns_records(r)[k] = ValidationError

(* A client method calls Connection.send: the request is on its way *)
ClientSend(op, words, target) ==
  /\ calls' = Append(calls, [op |-> op, words |-> words,
                             at |-> [pc |-> apply.pc, i |-> apply.i, j |-> apply.j, target |-> target]])
  /\ in_flight' = in_flight + 1
  /\ client_response' = Response(Tag(Len(calls) + 1))

(* ---- the device, as the provider's client sees it ---- *)
(* The `!re` sentence of a listed record; the device leaves `type` out for  *)
(* an A record                                                               *)
RecordSentence(record, tag) ==
  [type |-> "!re",
   attributes |-> {<<".id", record.id>>, <<"name", record.name>>, <<"address", record.address>>,
                   <<"ttl", record.ttl>>, <<"disabled", Text(to_word_value(Bool(record.disabled)))>>},
   api_attributes |-> {<<".tag", tag>>}]

RECURSIVE UpdateAll(_, _)
UpdateAll(r, sentences) ==
  IF sentences = <<>> THEN r ELSE UpdateAll(update_with_sentence(r, Head(sentences)), Tail(sentences))

Answerable == in_flight > 0 /\ ~is_complete(client_response) /\ ~Cancelled(client_response)

connFrame == <<connVars, lockVars, nextTag, taskVars, caller, closer, sockets, wireVars,
               net, devSent, devDone, session, userCloses, response, call, applied>>

(* The device answers the list request: a `!re` for each record, then `!done` *)
AnswerList(listing) ==
  /\ Answerable
  /\ apply.awaiting = "list"
  /\ client_response.sentences = <<>>
  /\ client_response' =
       UpdateAll(client_response,
                 [k \in DOMAIN listing |-> RecordSentence(listing[k], client_response.tag)]
                   \o <<ReplySentence("!done", client_response.tag)>>)
  /\ UNCHANGED <<connFrame, faults, changes, record_map, apply, calls, in_flight>>

(* The device ends its answer to a request *)
AnswerDone ==
  /\ Answerable
  /\ apply.awaiting \in {"add", "remove"} \/ client_response.sentences # <<>>
  /\ client_response' = update_with_sentence(client_response, ReplySentence("!done", client_response.tag))
  /\ UNCHANGED <<connFrame, faults, changes, record_map, apply, calls, in_flight>>

(* The device refuses a request *)
AnswerTrap ==
  /\ Answerable
  /\ client_response.sentences = <<>>
  /\ MayDisturb
  /\ faults' = faults + 1
  /\ client_response' = update_with_sentence(client_response, ReplySentence("!trap", client_response.tag))
  /\ UNCHANGED <<connFrame, changes, record_map, apply, calls, in_flight>>

(* The connection is closed while the request is pending: close() cancels   *)
(* its response                                                              *)
ConnectionClosed ==
  /\ Answerable
  /\ MayDisturb
  /\ faults' = faults + 1
  /\ client_response' = cancel(client_response)
  /\ UNCHANGED <<connFrame, changes, record_map, apply, calls, in_flight>>

(* ---- provider.py: Provider.apply_changes, webhook.py: Webhook.apply_changes ---- *)
(* The loops with the deletes ahead of the creates *)
DeletesFirst(pc) ==
  IF pc = "list" THEN "delete" ELSE IF pc = "delete" THEN "create" ELSE "update_delete"

(* The loop that follows a loop *)
PhaseAfter(pc) ==
  IF pc = "list" THEN "create" ELSE IF pc = "create" THEN "delete" ELSE "update_delete"

(* The old targets, common ones too *)
RemovedAll(old_endpoint, endpoint) == set(old_endpoint.targets)

(* `old_targets - new_targets` and `new_targets - old_targets` *)
Removed(old_endpoint, endpoint) == set(old_endpoint.targets) \ set(endpoint.targets)
Added(old_endpoint, endpoint) == set(endpoint.targets) \ set(old_endpoint.targets)

(* `for old_endpoint, endpoint in updates` at pair i: the set it removes *)
UpdatePos(i) ==
  [pc |-> "update_delete", i |-> i, j |-> 0,
   todo |-> IF i <= Len(updates) THEN Removed(updates[i][1], updates[i][2]) ELSE {}]

StartPos(pc) ==
  IF pc = "update_delete" THEN UpdatePos(1) ELSE [pc |-> pc, i |-> 1, j |-> 1, todo |-> {}]

(* The loops from position p on, up to the next target there is, or to the  *)
(* end of apply_changes                                                      *)
RECURSIVE Seek(_)
Seek(p) ==
  IF p.pc \in {"create", "delete"}
  THEN LET list == IF p.pc = "create" THEN creates ELSE deletes
       IN IF p.i > Len(list) THEN Seek(StartPos(PhaseAfter(p.pc)))
          ELSE IF p.j > Len(list[p.i].targets) THEN Seek([p EXCEPT !.i = @ + 1, !.j = 1])
          ELSE p
  ELSE IF p.pc = "update_delete"
  THEN IF p.i > Len(updates) THEN [pc |-> "returned", i |-> 0, j |-> 0, todo |-> {}]
       ELSE IF p.todo = {}
       THEN Seek([pc |-> "update_create", i |-> p.i, j |-> 0,
                  todo |-> Added(updates[p.i][1], updates[p.i][2])])
       ELSE p
  ELSE IF p.todo = {} THEN Seek(UpdatePos(p.i + 1)) ELSE p

(* apply_changes goes on from position p; when it returns the webhook sets  *)
(* the status 204                                                            *)
Goto(p, last) ==
  LET q == Seek(p)
  IN [pc |-> q.pc, i |-> q.i, j |-> q.j, todo |-> q.todo, awaiting |-> "", last |-> last,
      http |-> IF q.pc = "returned" THEN 204 ELSE 0]

(* The position after the target just handled *)
After(a) ==
  IF a.pc \in {"create", "delete"}
  THEN [pc |-> a.pc, i |-> a.i, j |-> a.j + 1, todo |-> a.todo]
  ELSE [pc |-> a.pc, i |-> a.i, j |-> a.j, todo |-> a.todo \ {a.last.target}]

(* The webhook's POST /records: apply_changes up to `await list_ip_dns_records()` *)
ApplyChanges(batch) ==
  /\ apply.pc = "idle"
  /\ changes' = batch
  /\ ClientSend("list", PrintWords, "")
  /\ apply' = [IdleApply EXCEPT !.pc = "list", !.awaiting = "list"]
  /\ UNCHANGED <<connFrame, faults, record_map>>

(* list_ip_dns_records returned or raised *)
ListReturned ==
  /\ apply.awaiting = "list"
  /\ is_complete(client_response)
  /\ in_flight' = in_flight - 1
  /\ client_response' = NoResponse
  /\ IF raise_for_error(client_response) = "ok" /\ ~ListRaises(client_response)
     THEN /\ record_map' = RecordMap(list_ip_dns_records(client_response))
          /\ apply' = Goto(StartPos(PhaseAfter("list")), NoAction)
     ELSE /\ record_map' = record_map
          /\ apply' = [apply EXCEPT !.pc = "raised", !.awaiting = ""]
  /\ UNCHANGED <<connFrame, faults, changes, calls>>

(* The endpoint and the target at hand *)
CurrentEndpoint ==
  IF apply.pc = "create" THEN creates[apply.i]
  ELSE IF apply.pc = "delete" THEN deletes[apply.i]
  ELSE updates[apply.i][2]

CurrentTargets ==
  IF apply.pc \in {"create", "delete"} THEN {CurrentEndpoint.targets[apply.j]} ELSE apply.todo

ActionName ==
  IF apply.pc = "update_delete" THEN "delete updated"
  ELSE IF apply.pc = "update_create" THEN "create updated"
  ELSE apply.pc

(* One `with log_action(...)` block, up to its `await` or, when it does not *)
(* get there, its end                                                        *)
ApplyTarget(target) ==
  /\ apply.pc \in {"create", "delete", "update_delete", "update_create"}
  /\ apply.awaiting = ""
  /\ target \in CurrentTargets
  /\ \E record \in {IF apply.pc \in {"create", "update_create"}
                     THEN to_routeros_record(CurrentEndpoint, target)
                     ELSE find(record_map, CurrentEndpoint, target)} :
       \E last \in {[action |-> ActionName, endpoint |-> apply.i, target |-> target, record |-> record]} :
         IF record.type \in {"NotImplementedError", "OverflowError", "none"}
         THEN /\ apply' = Goto(After([apply EXCEPT !.last = last]), last)
              /\ UNCHANGED <<calls, in_flight, client_response>>
         ELSE IF apply.pc \in {"create", "update_create"}
         THEN /\ ClientSend("add", AddWords(record), target)
              /\ apply' = [apply EXCEPT !.awaiting = "add", !.last = last]
         ELSE /\ ClientSend("remove", RemoveWords(record), target)
              /\ apply' = [apply EXCEPT !.awaiting = "remove", !.last = last]
  /\ UNCHANGED <<connFrame, faults, changes, record_map>>

(* add_ip_dns_record / delete_ip_dns_record returned, or raised             *)
(* ResponseError, which log_action logs and drops                            *)
ClientReturned ==
  /\ apply.awaiting \in {"add", "remove"}
  /\ is_complete(client_response)
  /\ in_flight' = in_flight - 1
  /\ client_response' = NoResponse
  /\ apply' = Goto(After(apply), apply.last)
  /\ UNCHANGED <<connFrame, faults, changes, record_map, calls>>

(* Connection.send raised in open() (no socket, or /login refused): the     *)
(* list call raises out of apply_changes, log_action drops any other         *)
ClientRaised ==
  /\ apply.awaiting # ""
  /\ client_response.sentences = <<>>
  /\ MayDisturb
  /\ faults' = faults + 1
  /\ in_flight' = in_flight - 1
  /\ client_response' = NoResponse
  /\ apply' = IF apply.awaiting = "list" THEN [apply EXCEPT !.pc = "raised", !.awaiting = ""]
              ELSE Goto(After(apply), apply.last)
  /\ UNCHANGED <<connFrame, changes, record_map, calls>>

(* ---- to_routeros_record and Client.add_ip_dns_record on one endpoint ---- *)
(* The endpoints translated: each type with one or two targets, a wildcard  *)
(* among them, and a recordTTL that is absent, 0, positive, or the first      *)
(* that timedelta does not hold                                               *)
TranslatedTargets == {<<"10.0.0.5">>, <<"*.b.lan">>, <<"b.lan", "*.b.lan">>, <<"v=1", "10.0.0.5">>}
TranslatedTtls == {None, Seconds(0, 0), Seconds(0, 3600), Seconds(0, 694861), Seconds(MaxTimedeltaDays + 1, 0)}
TranslatedEndpoints ==
  [dns_name : {"a.lan"}, record_type : {"A", "CNAME", "TXT", "PTR", "AAAA"},
   targets : TranslatedTargets, record_ttl : TranslatedTtls]

(* `for target in endpoint.targets`: to_routeros_record, and the words of   *)
(* the add call when it returned a record                                    *)
CreateEndpoint(endpoint) ==
  /\ applied' = [fn |-> "to_routeros_record", arg |-> endpoint,
                 out |-> [j \in DOMAIN endpoint.targets |->
                            LET record == to_routeros_record(endpoint, endpoint.targets[j])
                            IN IF record.type \in {"NotImplementedError", "OverflowError"}
                               THEN [raised |-> record.type, words |-> <<>>]
                               ELSE [raised |-> "", words |-> AddWords(record)]]]
  /\ UNCHANGED helperFrame

(* ---- provider.py: list_records on one answer of the device ---- *)
(* to_external_dns_endpoint: the endpoint of an A, CNAME or TXT record *)
to_external_dns_endpoint(record) ==
  IF record.type \in {"A", "CNAME", "TXT"}
  THEN [dns_name |-> record.name, labels |-> {}, provider_specific |-> <<>>,
        record_ttl |-> to_external_dns_ttl(Spelling[record.ttl]), record_type |-> record.type,
        set_identifier |-> None,
        targets |-> <<IF record.type = "A" THEN record.address
                      ELSE IF record.type = "CNAME" THEN record.cname ELSE record.text>>]
  ELSE NotImplementedError

(* Provider.list_records: the endpoints of the listed records, those that   *)
(* to_external_dns_endpoint raises NotImplementedError for left out          *)
list_records(r) ==
  IF raise_for_error(r) # "ok" THEN [raised |-> raise_for_error(r), endpoints |-> <<>>]
  ELSE IF ListRaises(r) THEN [raised |-> "ValidationError", endpoints |-> <<>>]
  ELSE LET routeros_records == list_ip_dns_records(r)
           converted == [k \in DOMAIN routeros_records |-> to_external_dns_endpoint(routeros_records[k])]
       IN [raised |-> "", endpoints |-> SelectSeq(converted, LAMBDA e : e # NotImplementedError)]

(* The rows of /ip/dns/static/print: an A row, an A row of a release that   *)
(* sends no `type`, a CNAME, a TXT, an AAAA and an NXDOMAIN row, and a TXT   *)
(* row whose text is the address of the A row of its name                    *)
Row(id, name, ttl, rest) ==
  {<<".id", id>>, <<"name", name>>, <<"ttl", ttl>>, <<"disabled", "false">>, <<"dynamic", "false">>} \cup rest

DeviceRows ==
  {Row("*1", "a.lan", "1d", {<<"type", "A">>, <<"address", "10.0.0.5">>}),
   Row("*2", "a.lan", "1h", {<<"address", "10.0.0.6">>}),
   Row("*3", "c.lan", "1w1d1h1m1s", {<<"type", "CNAME">>, <<"cname", "b.lan">>, <<"match-subdomain", "true">>}),
   Row("*4", "a.lan", "5m", {<<"type", "TXT">>, <<"text", "v=1">>}),
   Row("*5", "a.lan", "90000s", {<<"type", "AAAA">>, <<"address", "::1">>}),
   Row("*6", "x.lan", "1d", {<<"type", "NXDOMAIN">>}),
   Row("*7", "a.lan", "1d", {<<"type", "TXT">>, <<"text", "10.0.0.5">>})}

MaxRows == 2
RowLists == UNION {[1..n -> DeviceRows] : n \in 0..MaxRows}

(* The answer of the device to the print request: one `!re` per row, `!done` *)
(* (list_records and find are each called once, on a new provider)           *)
PrintAnswer(rows) ==
  UpdateAll(Response(Tag(1)),
            [k \in DOMAIN rows |-> [type |-> "!re", attributes |-> rows[k], api_attributes |-> {<<".tag", Tag(1)>>}]]
              \o <<ReplySentence("!done", Tag(1))>>)

ListRecords(rows) ==
  /\ applied = NoApplied
  /\ applied' = [fn |-> "list_records", arg |-> rows, out |-> list_records(PrintAnswer(rows))]
  /\ UNCHANGED helperFrame

(* ---- provider.py: RecordMap.find on one listing ---- *)
(* The endpoints and targets looked up *)
FoundNames == {"a.lan", "c.lan", "x.lan", "z.lan"}
FoundTypes == {"A", "CNAME", "TXT"}
FoundTargets == {"10.0.0.5", "10.0.0.6", "b.lan", "v=1", "::1"}

(* RecordMap(records).find(endpoint, target) on the records of a listing *)
FindRecord(rows, endpoint, target) ==
  /\ applied = NoApplied
  /\ ~ListRaises(PrintAnswer(rows))
  /\ applied' = [fn |-> "find",
                 arg |-> [records |-> list_ip_dns_records(PrintAnswer(rows)), endpoint |-> endpoint, target |-> target],
                 out |-> find(RecordMap(list_ip_dns_records(PrintAnswer(rows))), endpoint, target)]
  /\ UNCHANGED helperFrame

(* ---- mikrotik.py: write_word and read_word, byte by byte ---- *)
(* a & b and a | b of two bytes *)
RECURSIVE BitAnd(_, _)
BitAnd(a, b) ==
  IF a = 0 \/ b = 0 THEN 0 ELSE 2 * BitAnd(a \div 2, b \div 2) + (IF a % 2 = 1 /\ b % 2 = 1 THEN 1 ELSE 0)

RECURSIVE BitOr(_, _)
BitOr(a, b) ==
  IF a = 0 THEN b ELSE IF b = 0 THEN a
  ELSE 2 * BitOr(a \div 2, b \div 2) + (IF a % 2 = 1 \/ b % 2 = 1 THEN 1 ELSE 0)

(* n >> (8 * k) *)
RECURSIVE ShiftBytes(_, _)
ShiftBytes(n, k) == IF k = 0 THEN n ELSE ShiftBytes(n \div 256, k - 1)

(* The characters that take two bytes in UTF-8; every other takes one *)
TwoByteChars == {"é"}
Utf8Len(c) == IF c \in TwoByteChars THEN 2 ELSE 1

(* A word is the characters `text` followed by `more` letters `a`.          *)
(* len(word), and word.encode(): the bytes of each character in turn, a byte *)
(* being <<character, position in the character>>                            *)
len(word) == Len(word.text) + word.more

RECURSIVE encode(_)
encode(text) ==
  IF text = <<>> THEN <<>>
  ELSE [i \in 1..Utf8Len(Head(text)) |-> <<Head(text), i>>] \o encode(Tail(text))

(* bytes.decode(): the characters, or UnicodeDecodeError when the bytes end *)
(* within a character (or start within one)                                  *)
UnicodeDecodeError == <<"UnicodeDecodeError">>

RECURSIVE decode(_)
decode(bytes) ==
  IF bytes = <<>> THEN <<>>
  ELSE LET c == Head(bytes)[1]
           n == Utf8Len(c)
       IN IF Head(bytes)[2] # 1 \/ Len(bytes) < n THEN UnicodeDecodeError
          ELSE LET rest == decode(SubSeq(bytes, n + 1, Len(bytes)))
               IN IF rest = UnicodeDecodeError THEN UnicodeDecodeError ELSE <<c>> \o rest

(* The length prefix of write_word: the number of bytes and the first byte  *)
(* of the mask, by len(word)                                                 *)
LengthClass(n) ==
  IF n <= 127 THEN [num_bytes |-> 1, mask |-> 0]
  ELSE IF n <= 16383 THEN [num_bytes |-> 2, mask |-> 128]
  ELSE IF n <= 2097151 THEN [num_bytes |-> 3, mask |-> 192]
  ELSE IF n <= 268435455 THEN [num_bytes |-> 4, mask |-> 224]
  ELSE [num_bytes |-> 5, mask |-> 240]

(* (mask | n).to_bytes(num_bytes, "big") *)
to_bytes(n, class) ==
  [i \in 1..class.num_bytes |->
     BitOr(IF i = 1 THEN class.mask ELSE 0, ShiftBytes(n, class.num_bytes - i) % 256)]

(* write_word: what it writes to the socket, the prefix, the bytes of       *)
(* `text` and the number of bytes after them                                 *)
WriteWord(word) ==
  [prefix |-> to_bytes(len(word), LengthClass(len(word))),
   bytes |-> encode(word.text),
   more |-> word.more]

(* read_word on a socket that holds `data`: the word it returns or the      *)
(* error it raises, and the number of bytes it leaves unread                 *)
ExtraBytes(header) ==
  IF BitAnd(header, 240) = 240 THEN 4
  ELSE IF BitAnd(header, 224) = 224 THEN 3
  ELSE IF BitAnd(header, 192) = 192 THEN 2
  ELSE IF BitAnd(header, 128) = 128 THEN 1
  ELSE 0

ReadWord(data) ==
  LET header == data.prefix[1]
      num_bytes == ExtraBytes(header)
      unread == Len(data.prefix) - 1 + Len(data.bytes) + data.more
  IN IF num_bytes > 0
     THEN [raised |-> "TypeError", word |-> <<>>, unread |-> unread - num_bytes]
     ELSE LET length == header
              taken == SubSeq(data.bytes, 1, IF length < Len(data.bytes) THEN length ELSE Len(data.bytes))
              text == decode(taken)
          IN IF length > Len(data.bytes) + data.more
             THEN [raised |-> "IncompleteReadError", word |-> <<>>, unread |-> 0]
             ELSE IF text = UnicodeDecodeError
             THEN [raised |-> "UnicodeDecodeError", word |-> <<>>, unread |-> unread - length]
             ELSE [raised |-> "", word |-> [text |-> text, more |-> length - Len(taken)],
                   unread |-> unread - length]

(* The words written: short texts, and lengths at the ends of the five      *)
(* classes                                                                   *)
WordTexts ==
  {<<>>, <<"!", "r", "e">>, <<"=", "k", "=", "v">>, <<"=", "k", "=", "é">>, <<"é">>, <<"é", "é">>,
   <<".", "t", "a", "g", "=", "1">>}
WordLengths ==
  {0, 1, 2, 126, 127, 128, 129, 16383, 16384, 16385, 2097151, 2097152, 2097153,
   268435455, 268435456, 268435457}
Words ==
  {[text |-> p[1], more |-> p[2] - Len(p[1])] : p \in {q \in WordTexts \X WordLengths : q[2] >= Len(q[1])}}

(* read_word of what write_word wrote *)
WriteReadWord(word) ==
  /\ applied' = [fn |-> "write_word", arg |-> word,
                 out |-> [data |-> WriteWord(word), read |-> ReadWord(WriteWord(word))]]
  /\ UNCHANGED helperFrame

(* ---- mikrotik.py: to_attribute_words, to_api_attribute_words on a dict ---- *)
(* The keys and values of the dicts, and the dict of the unit test *)
DictKeys == {<<"s", "t", "r">>, <<"i", "n", "t">>, <<".", "t", "a", "g">>, <<"i", "d">>, <<>>}
DictValues == {Str(<<"a">>), Str(<<"a", "=", "b">>), Number(1), Number(-10), Bool(TRUE), Bool(FALSE), None}
MaxItems == 2
TestDict ==
  << <<<<"s", "t", "r">>, Str(<<"a">>)>>, <<<<"i", "n", "t">>, Number(1)>>,
     <<<<"b", "o", "o", "l">>, Bool(TRUE)>>, <<<<"n", "o", "n", "e">>, None>> >>
Dicts ==
  {TestDict} \cup
  UNION {{val \in [1..n -> DictKeys \X DictValues] : \A i, j \in 1..n : i # j => val[i][1] # val[j][1]} :
           n \in 0..MaxItems}

ToAttributeWords(val) ==
  /\ applied = NoApplied
  /\ applied' = [fn |-> "to_attribute_words", arg |-> val, out |-> to_attribute_words(val)]
  /\ UNCHANGED helperFrame

ToApiAttributeWords(val) ==
  /\ applied = NoApplied
  /\ applied' = [fn |-> "to_api_attribute_words", arg |-> val, out |-> ApiAttributeWords(val)]
  /\ UNCHANGED helperFrame

(* ---- mikrotik.py: write_sentence and read_sentence, word by word ---- *)
(* A word of the text `chars`, and the empty word *)
Word(chars) == [text |-> chars, more |-> 0]

(* The words a sentence is made of: its type, `=key=value` per attribute,   *)
(* `key=value` per api attribute, the empty word.  A value is a text and a   *)
(* number of further letters, as a word is.                                  *)
WordsOfSentence(sentence) ==
  <<Word(sentence.type)>>
    \o [i \in DOMAIN sentence.attributes |->
          [text |-> <<"=">> \o sentence.attributes[i][1] \o <<"=">> \o sentence.attributes[i][2].text,
           more |-> sentence.attributes[i][2].more]]
    \o [i \in DOMAIN sentence.api_attributes |->
          [text |-> sentence.api_attributes[i][1] \o <<"=">> \o sentence.api_attributes[i][2].text,
           more |-> sentence.api_attributes[i][2].more]]
    \o <<Word(<<>>)>>

(* write_sentence: write_word for each word *)
WriteSentence(sentence) == [i \in DOMAIN sentence |-> WriteWord(sentence[i])]

(* text.split("=") *)
RECURSIVE split(_)
split(text) ==
  IF \A i \in DOMAIN text : text[i] # "=" THEN <<text>>
  ELSE LET at == CHOOSE i \in DOMAIN text : text[i] = "=" /\ \A j \in 1..(i - 1) : text[j] # "="
       IN <<SubSeq(text, 1, at - 1)>> \o split(SubSeq(text, at + 1, Len(text)))

(* "=".join(parts) *)
RECURSIVE join(_)
join(parts) ==
  IF parts = <<>> THEN <<>>
  ELSE IF Len(parts) = 1 THEN parts[1]
  ELSE parts[1] \o <<"=">> \o join(Tail(parts))

(* read_sentence on the words written, from the word it reads next: the     *)
(* sentence it returns or the error it raises.  A read_word that returns     *)
(* with bytes of its word left unread leaves the second byte of a two-byte   *)
(* character as the next prefix: a byte over 0x7F, on which read_word raises *)
RECURSIVE ReadWords(_, _)
ReadWords(sentence, data) ==
  LET read == ReadWord(Head(data))
      word == read.word
  IN IF read.raised # "" THEN [raised |-> read.raised, sentence |-> None]
     ELSE IF read.unread # 0 THEN [raised |-> "TypeError", sentence |-> None]
     ELSE IF word = Word(<<>>) THEN [raised |-> "", sentence |-> sentence]
     ELSE IF startswith(word.text, <<"!">>)
     THEN ReadWords([type |-> word.text, attributes |-> {}, api_attributes |-> {}], Tail(data))
     ELSE IF sentence # None /\ startswith(word.text, <<"=">>)
     THEN LET parts == split(Tail(word.text))
          IN ReadWords([sentence EXCEPT !.attributes =
                          DictSet(@, parts[1], [text |-> join(Tail(parts)), more |-> word.more])],
                       Tail(data))
     ELSE IF sentence # None /\ startswith(word.text, <<".">>)
     THEN LET parts == split(word.text)
          IN IF Len(parts) # 2 THEN [raised |-> "ValueError", sentence |-> None]
             ELSE ReadWords([sentence EXCEPT !.api_attributes =
                               DictSet(@, parts[1], [text |-> parts[2], more |-> word.more])],
                            Tail(data))
     ELSE ReadWords(sentence, Tail(data))

(* The sentences written: `!re` and `!done`, values with `=`, without       *)
(* characters, with a two-byte character, and of more than 127 characters    *)
SentenceTypes == {<<"!", "r", "e">>, <<"!", "d", "o", "n", "e">>}
AttributeKeys == {<<"k">>, <<"n", "a", "m", "e">>}
AttributeValues ==
  {Word(<<"v">>), Word(<<"a", "=", "b">>), Word(<<"=">>), Word(<<>>), Word(<<"é">>),
   [text |-> <<"v", "=", "D", "K", "I", "M", "1">>, more |-> 200]}
ApiAttributes ==
  {<<>>, << <<<<".", "t", "a", "g">>, Word(<<"1">>)>> >>, << <<<<".", "t", "a", "g">>, Word(<<"a", "=", "b">>)>> >>}
Sentences ==
  {[type |-> type, attributes |-> attributes, api_attributes |-> api_attributes] :
     type \in SentenceTypes,
     attributes \in UNION {{val \in [1..n -> AttributeKeys \X AttributeValues] :
                              \A i, j \in 1..n : i # j => val[i][1] # val[j][1]} : n \in 0..MaxItems},
     api_attributes \in ApiAttributes}

(* read_sentence of what write_sentence wrote *)
WriteReadSentence(sentence) ==
  /\ applied = NoApplied
  /\ applied' = [fn |-> "write_sentence", arg |-> sentence,
                 out |-> ReadWords(None, WriteSentence(WordsOfSentence(sentence)))]
  /\ UNCHANGED helperFrame

(* ---- the specifications ---- *)
(* A client task c *)
Client(c) ==
  \/ Send(c)
  \/ OpenGranted(c)
  \/ DialOk(c)
  \/ WriteMore(c)
  \/ WriteRaise(c)
  \/ LoginDone(c)
  \/ SendReturn(c)

(* The tasks of the connection, the transport and the device *)
Background ==
  \/ Resume
  \/ \E g \in Gens : ReadSentence(g)
  \/ \E g \in Gens : ReadTimeout(g)
  \/ \E g \in Gens : MonitorStep(g)
  \/ Tick
  \/ \E k \in Closers : CloseStart(k)
  \/ \E k \in Closers : CloseGranted(k)
  \/ \E k \in Closers : CloseJoined(k)
  \/ \E k \in Closers : CloseFinish(k)
  \/ \E t \in 1..MaxTag, type \in {"!re", "!trap", "!done"} : DeviceReply(t, type)

(* What goes wrong, and a close() from outside *)
Disturbance ==
  \/ \E c \in Callers : DialFail(c)
  \/ \E g \in Gens, n \in 1..3 : ReadStall(g, n)
  \/ \E g \in Gens : ReadError(g)
  \/ \E tag \in {""} \cup {Tag(t) : t \in 1..MaxTag} : DeviceFault(tag)
  \/ UserClose

(* Concurrent clients of a connection to a sound device *)
Next ==
  \/ \E c \in Callers : Client(c)
  \/ Background

Spec == Init /\ [][Next]_vars

(* One client of a connection that is disturbed *)
NextDisturbed ==
  \/ Client(1)
  \/ Background
  \/ Disturbance

SpecDisturbed == Init /\ [][NextDisturbed]_vars

(* Concurrent clients of a connection that is disturbed *)
NextAll ==
  \/ Next
  \/ Disturbance

SpecAll == Init /\ [][NextAll]_vars

(* A Response and the calls on it *)
NextResponse ==
  \/ \E s \in DeviceSentences : CallUpdate(s)
  \/ CallCancel
  \/ CallRaiseForError
  \/ CallGetData
  \/ CallGetErrorData

SpecResponse == Init /\ [][NextResponse]_vars

(* The provider applying a batch, its client and the device *)
NextProvider ==
  \/ apply.pc = "idle" /\ \E batch \in Changes : ApplyChanges(batch)
  \/ ListReturned
  \/ \E target \in {"10.0.0.5", "10.0.0.6", "10.0.0.7"} : ApplyTarget(target)
  \/ ClientReturned
  \/ ClientRaised
  \/ \E listing \in Listings : AnswerList(listing)
  \/ AnswerDone
  \/ AnswerTrap
  \/ ConnectionClosed

SpecProvider == Init /\ [][NextProvider]_vars

(* The helper functions of the provider, each called on its own *)
NextTranslate ==
  \/ \E days \in TtlDays, seconds \in TtlSeconds : TtlRoundTrip(Seconds(days, seconds))
  \/ \E endpoint \in TranslatedEndpoints : CreateEndpoint(endpoint)
  \/ \E rows \in RowLists : ListRecords(rows)
  \/ \E rows \in RowLists, name \in FoundNames, type \in FoundTypes, target \in FoundTargets :
       FindRecord(rows, [Endpoint(type, <<target>>) EXCEPT !.dns_name = name], target)

SpecTranslate == Init /\ [][NextTranslate]_vars

(* The helper functions of the client, each called on its own *)
NextWire ==
  \/ \E word \in Words : WriteReadWord(word)
  \/ \E val \in Dicts : ToAttributeWords(val)
  \/ \E val \in Dicts : ToApiAttributeWords(val)
  \/ \E sentence \in Sentences : WriteReadSentence(sentence)

SpecWire == Init /\ [][NextWire]_vars

(* ---- what the claims speak of ---- *)
(* The connection is Closed *)
Closed == closed_event /\ stream = 0

(* What the program and the device do on their own, given time: every step  *)
(* but a new send(), a fault and a close() from outside.                     *)
Progress ==
  \/ \E c \in Callers : OpenGranted(c) \/ DialOk(c) \/ WriteMore(c) \/ WriteRaise(c)
                          \/ LoginDone(c) \/ SendReturn(c)
  \/ Background

(* Nothing more happens unless a client sends or the environment disturbs *)
Quiescent == ~ENABLED <<Progress>>_vars

(* ---- the claims ---- *)

(* C1: a caller blocked in send() on a response that close() cancelled gets *)
(* a response that is complete with status Error and carries the "response  *)
(* cancelled" trap, so that it returns and raise_for_error gives             *)
(* ResponseError; whoever called close().                                    *)
C1_CancelledSendReturns ==
  \A c \in Callers :
    caller[c].pc = "waiting" /\ Cancelled(resp[caller[c].tag])
      => /\ is_complete(resp[caller[c].tag])
         /\ resp[caller[c].tag].status = "error"
         /\ raise_for_error(resp[caller[c].tag]) = "ResponseError"

(* A send() is left waiting on a cancelled response when nothing more happens *)
C1_Stuck ==
  /\ Quiescent
  /\ Closed
  /\ \E c \in Callers : caller[c].pc = "waiting" /\ Cancelled(resp[caller[c].tag])

(* C2: after cancel() on an in-progress Response the response is complete,  *)
(* its status is Error and it holds a "response cancelled" trap.             *)
C2_CancelCompletes ==
  call.method = "cancel" /\ ~call.raised
    => /\ is_complete(response)
       /\ response.status = "error"
       /\ Cancelled(response)

(* cancel() returned and the response is not complete *)
C2_CancelledIncomplete ==
  /\ call.method = "cancel"
  /\ ~call.raised
  /\ Cancelled(response)
  /\ response.status = "error"
  /\ ~is_complete(response)

(* C3: once nothing more happens, a connection whose reader failed is Closed, *)
(* its socket closed, and no send() is left waiting.                          *)
C3_ReaderFailureCloses ==
  Quiescent =>
    \A g \in Gens : reader[g] = "failed"
      => /\ Closed
         /\ g \notin sockets
         /\ \A c \in Callers : caller[c].pc # "waiting"

(* The reader failed, close() ran into its exception, and the connection   *)
(* keeps the socket with the closed signal set.                             *)
C3_HalfClosed ==
  /\ Quiescent
  /\ stream # 0
  /\ reader[stream] = "failed"
  /\ closed_event
  /\ stream \in sockets
  /\ LockFree

(* The response a send() is waiting for *)
Awaited(c) == resp[caller[c].tag]

(* C4: a sentence that arrives with tag t is appended only to the Response  *)
(* of the request with tag t, and the response a send() is about to return   *)
(* holds exactly the sentences the device sent with its tag, in the order    *)
(* sent, the last one being the `!done`.                                     *)
C4_Demultiplexed ==
  /\ [](\A c \in Callers :
          caller[c].pc \in {"waiting", "login_wait"} /\ is_complete(Awaited(c))
            => /\ Awaited(c).sentences = devSent[caller[c].tag]
               /\ Awaited(c).sentences[Len(Awaited(c).sentences)].type = "!done")
  /\ [][\A t \in 1..MaxTag :
          resp[t].tag # "" /\ resp'[t].tag = resp[t].tag /\ resp'[t].sentences # resp[t].sentences
            => LET s == resp'[t].sentences[Len(resp'[t].sentences)] IN
               /\ resp'[t].sentences = Append(resp[t].sentences, s)
               /\ DictHas(s.api_attributes, ".tag") => DictGet(s.api_attributes, ".tag") = resp[t].tag
               /\ resp[t].tag = Tag(t)]_vars

(* Two send() calls wait at once; the later request is answered in full with *)
(* two sentences while the earlier one has only its first sentence.          *)
C4_Interleaved ==
  \E c, d \in Callers :
    /\ caller[c].pc = "waiting" /\ caller[d].pc = "waiting"
    /\ caller[d].tag < caller[c].tag
    /\ is_complete(Awaited(c)) /\ Len(Awaited(c).sentences) = 2
    /\ ~is_complete(Awaited(d)) /\ Len(Awaited(d).sentences) = 1

(* C5: the words written to the socket since the last sentence terminator   *)
(* all belong to one request.                                                *)
C5_WritesSerialized ==
  \A i, j \in DOMAIN wire : wire[i].req = wire[j].req

(* Words of two requests are mixed within one sentence on the wire *)
C5_Mixed ==
  \E i, j \in DOMAIN wire : i < j /\ wire[i].req # wire[j].req /\ wire[j].word[1] = "/"

(* The callers inside open()'s dial and login *)
Opening == {c \in Callers : caller[c].pc \in {"dialing", "login_drain", "login_wait"}}

(* C6: at most one caller dials and logs in at a time, holding the mutex and *)
(* only when no socket is held; at most one socket is open, at most one      *)
(* reader and one idle monitor run, for the current socket; a caller that    *)
(* gets a socket from open() gets the current one; open() on an Open         *)
(* connection neither dials nor logs in.                                     *)
C6_OpenExclusive ==
  /\ [](/\ Cardinality(Opening) <= 1
        /\ \A c \in Opening : lockOwner = SendTask(c)
        /\ \A c \in Opening : caller[c].pc # "dialing" => caller[c].tag = stream /\ caller[c].stream = stream
        /\ sockets \subseteq {stream}
        /\ \A g \in Gens : reader[g] = "run" \/ monitor[g] = "run" => g = stream)
  /\ [][\A c \in Callers :
          /\ caller[c].pc # "dialing" /\ caller'[c].pc = "dialing"
               => stream = 0 /\ sockets = {} /\ lockOwner' = SendTask(c)
          /\ caller[c].pc = "dialing" /\ caller'[c].pc # "dialing" /\ stream' # 0
               => /\ stream = 0 /\ stream' \notin sockets /\ sockets' = {stream'}
                  /\ reader'[stream'] = "run" /\ monitor'[stream'] = "run"
                  /\ \A g \in Gens \ {stream'} : reader'[g] # "run" /\ monitor'[g] # "run"
          /\ caller[c].pc \in {"idle", "lockwait"} /\ stream # 0 /\ caller'[c].pc # caller[c].pc
               => /\ caller'[c].pc \in {"lockwait", "drain", "waiting"}
                  /\ stream' = stream /\ sockets' = sockets
                  /\ caller'[c].pc # "lockwait" => caller'[c].stream = stream /\ nextTag' = nextTag + 1
          /\ caller'[c].pc \in {"drain", "waiting"} /\ caller[c].pc \notin {"drain", "waiting"}
               => caller'[c].stream = stream' /\ stream' # 0]_vars

(* One caller is logging in on the socket it dialed, holding the mutex,     *)
(* while a second caller's open() waits for the mutex.                       *)
C6_ConcurrentOpen ==
  \E c, d \in Callers :
    /\ caller[c].pc = "login_wait"
    /\ caller[d].pc = "lockwait"
    /\ lockOwner = SendTask(c)
    /\ lockQ = <<SendTask(d)>>
    /\ sockets = {stream}

(* C7: with the mutex free, a set closed signal means no socket, no         *)
(* background task and no pending response; and a held socket means a clear  *)
(* closed signal and a reader task and an idle-monitor task for it.          *)
C7_ClosedOwnsNothing ==
  /\ LockFree /\ closed_event
       => stream = 0 /\ background_tasks = <<>> /\ responses = {}
  /\ LockFree /\ stream # 0
       => ~closed_event /\ reader[stream] # "none" /\ monitor[stream] # "none"

(* C8: once nothing more happens, no socket on which the device rejected    *)
(* /login is still held or open: the connection is Closed, its background    *)
(* tasks gone and its pending map empty.                                     *)
C8_LoginTrapCloses ==
  Quiescent /\ session = "rejected"
    => Closed /\ sockets = {} /\ background_tasks = <<>> /\ responses = {}

(* C9: the idle monitor schedules close() only when the connection has been *)
(* idle for idle_timeout, schedules one close() and exits; and once nothing  *)
(* more happens, no connection whose monitor has exited still holds a        *)
(* socket.                                                                   *)
C9_IdleCloses ==
  /\ [](Quiescent => \A g \in Gens : monitor[g] = "done" => stream = 0 /\ closed_event /\ g \notin sockets)
  /\ [][\A g \in Gens :
          monitor[g] = "run" /\ monitor'[g] = "done" /\ ~closed_event
            => /\ is_idle
               /\ Cardinality({k \in Closers : closer'[k].pc = "start"})
                    = Cardinality({k \in Closers : closer[k].pc = "start"}) + 1]_vars


(* A socket is held with the closed signal set and the mutex free *)
C7_HeldWhileClosed ==
  /\ LockFree
  /\ closed_event
  /\ stream # 0
  /\ stream \in sockets
  /\ background_tasks # <<>>

(* The device rejected /login, the reader failed, and the socket is still   *)
(* open when nothing more happens.                                           *)
C8_RejectedStaysOpen ==
  /\ Quiescent
  /\ session = "rejected"
  /\ stream \in sockets
  /\ \E c \in Callers : caller[c].result = "raised"

(* The idle monitor scheduled close() and exited, close() ran into the      *)
(* failed reader, and the socket is still held when nothing more happens.    *)
C9_IdleNotClosed ==
  /\ Quiescent
  /\ stream # 0
  /\ monitor[stream] = "done"
  /\ reader[stream] = "failed"
  /\ closed_event
  /\ LockFree

(* C10: a socket is dialed only by a send() inside open(), which starts a   *)
(* reader and an idle monitor for it; a send() that calls open() while the   *)
(* closed signal is set dials a new socket (or waits for the mutex to do     *)
(* so); and the send() that dialed writes its request only after its /login  *)
(* completed with Success.                                                   *)
C10_ReopenedBySend ==
  [][/\ stream' # stream /\ stream' # 0
          => \E c \in Callers : caller[c].pc = "dialing" /\ caller'[c].stream = stream'
                                  /\ reader'[stream'] = "run" /\ monitor'[stream'] = "run"
     /\ \A c \in Callers :
          /\ caller[c].pc = "idle" /\ caller'[c].pc # "idle"
               /\ closed_event
               => caller'[c].pc \in {"dialing", "lockwait"}
          /\ caller[c].pc = "lockwait" /\ caller'[c].pc # "lockwait"
               /\ closed_event
               => caller'[c].pc = "dialing"
          /\ caller[c].pc = "login_wait" /\ caller'[c].pc \in {"drain", "waiting"}
               => /\ is_complete(Awaited(c))
                  /\ Awaited(c).status = "success"
                  /\ caller'[c].tag > caller[c].tag]_vars

(* A send() made after the reader failed and close() gave up waits on the   *)
(* socket of the failed connection.                                          *)
C10_SentOnDeadSocket ==
  \E c \in Callers :
    /\ caller[c].pc = "waiting"
    /\ caller[c].stream = stream
    /\ reader[stream] = "failed"
    /\ closed_event
    /\ caller[c].tag > stream + 1

(* The "response cancelled" traps a response holds *)
CancelCount(r) == Cardinality({i \in DOMAIN r.sentences : r.sentences[i] = CancelSentence})

(* A close() coroutine k returns from its test of the closed signal *)
CloseReturnsAtOnce(k) == closer[k].pc \in {"start", "lockwait"} /\ closer'[k].pc = "free" /\ closed_event

(* C11: close() is idempotent.  A close() that finds the closed signal set   *)
(* changes nothing of the connection, its socket, its tasks or its           *)
(* responses.  writer.close() is called only on a socket that is still open, *)
(* no response is cancelled twice, and once the close() calls have run (the  *)
(* closed signal is set and nothing more happens) the socket is closed and   *)
(* every response a send() still waits for has been cancelled.               *)
C11_CloseIdempotent ==
  /\ [][\A k \in Closers :
          /\ CloseReturnsAtOnce(k)
               => UNCHANGED <<stream, closed_event, idle, responses, background_tasks, resp,
                              reader, monitor, sockets, wire, received, net>>
          /\ closer[k].pc # "wait_closed" /\ closer'[k].pc = "wait_closed"
               => stream \in sockets /\ stream \notin sockets']_vars
  /\ [](\A t \in 1..MaxTag : CancelCount(resp[t]) <= 1)
  /\ [](Quiescent /\ closed_event
          => /\ sockets = {}
             /\ \A c \in Callers : caller[c].pc = "waiting" /\ ~is_complete(Awaited(c))
                                     => CancelCount(Awaited(c)) = 1)

(* Two close() calls run at once: the first set the closed signal and ran   *)
(* into the failed reader, the mutex went to the second, which waited for   *)
(* it and now finds the closed signal set with the socket open.             *)
C11_SecondCloseFindsSocketOpen ==
  \E k \in Closers :
    /\ closer[k].pc = "lockwait"
    /\ lockOwner = CloseTask(k)
    /\ closed_event
    /\ stream \in sockets
    /\ reader[stream] = "failed"
    /\ \A j \in Closers \ {k} : closer[j].pc = "free"

(* ---- the Response claims ---- *)
HasType(r, type) == \E i \in DOMAIN r.sentences : r.sentences[i].type = type

(* The attribute maps of the sentences of one type, in order *)
RECURSIVE AttributesOf(_, _)
AttributesOf(sentences, type) ==
  IF sentences = <<>> THEN <<>>
  ELSE (IF Head(sentences).type = type THEN <<Head(sentences).attributes>> ELSE <<>>)
         \o AttributesOf(Tail(sentences), type)

(* A step that is a call of update_with_sentence which did not raise appends *)
(* the sentence it was called with                                           *)
AcceptedIsAppended ==
  call'.method = "update_with_sentence" /\ ~call'.raised
    => response'.sentences = Append(response.sentences, call'.sentence)

(* C12 as stated: a Response is InProgress and not complete until the first *)
(* `!done`, complete from the first `!done` on, then Error if a `!trap` came *)
(* before it and Success otherwise; accepted sentences are appended in order. *)
C12_InProgressUntilDone ==
  /\ [](~HasType(response, "!done") => response.status = "in-progress" /\ ~is_complete(response))
  /\ [](HasType(response, "!done") => is_complete(response))
  /\ [](is_complete(response)
          => response.status = IF HasType(response, "!trap") THEN "error" ELSE "success")
  /\ [][AcceptedIsAppended]_vars

(* C12, amended: a Response is not complete until the first `!done` and     *)
(* complete from it on, the `!done` being its last sentence; its status is   *)
(* InProgress until the first `!trap` or `!done`, Error from the first       *)
(* `!trap` on (before the `!done` too), and Success from a `!done` that no   *)
(* `!trap` preceded; accepted sentences are appended in arrival order.       *)
C12_ErrorFromFirstTrap ==
  /\ [](is_complete(response) <=> HasType(response, "!done"))
  /\ [](\A i \in DOMAIN response.sentences :
          response.sentences[i].type = "!done" => i = Len(response.sentences))
  /\ [](response.status = IF HasType(response, "!trap") THEN "error"
                          ELSE IF HasType(response, "!done") THEN "success"
                          ELSE "in-progress")
  /\ [][AcceptedIsAppended]_vars

(* update_with_sentence took a `!trap` from the device after a `!re`: the   *)
(* status is Error and the response is not complete                          *)
C12_ErrorBeforeDone ==
  /\ call.method = "update_with_sentence"
  /\ call.sentence.type = "!trap"
  /\ ~call.raised
  /\ Len(response.sentences) = 2
  /\ response.sentences[1].type = "!re"
  /\ response.status = "error"
  /\ ~is_complete(response)

(* C13: once a Response is complete, update_with_sentence and cancel raise  *)
(* and nothing changes the response any more: sentences, status and          *)
(* completion stay as they are.                                              *)
C13_CompleteIsFinal ==
  [][is_complete(response)
       => /\ response' = response
          /\ call'.method \in {"update_with_sentence", "cancel"} => call'.raised /\ call'.error # ""]_vars

(* A complete, successful Response refused a `!trap` *)
C13_TrapRefused ==
  /\ is_complete(response)
  /\ response.status = "success"
  /\ call.method = "update_with_sentence"
  /\ call.sentence.type = "!trap"
  /\ call.raised
  /\ ~HasType(response, "!trap")

(* C14: get_data returns the attribute maps of the `!re` sentences, in      *)
(* order, when the response is complete with status Success, and             *)
(* get_error_data those of the `!trap` sentences when it is complete with    *)
(* status Error; otherwise each raises "response in progress" when the       *)
(* response is not complete, "response not success" / "response not error"   *)
(* when it is, and returns nothing.                                          *)
C14_DataByStatus ==
  /\ call.method = "get_data"
       => IF is_complete(response) /\ response.status = "success"
          THEN ~call.raised /\ call.result = AttributesOf(response.sentences, "!re")
          ELSE /\ call.raised /\ call.result = <<>>
               /\ call.error = IF ~is_complete(response) THEN "response in progress"
                               ELSE "response not success"
  /\ call.method = "get_error_data"
       => IF is_complete(response) /\ response.status = "error"
          THEN ~call.raised /\ call.result = AttributesOf(response.sentences, "!trap")
          ELSE /\ call.raised /\ call.result = <<>>
               /\ call.error = IF ~is_complete(response) THEN "response in progress"
                               ELSE "response not error"

(* get_data returned the data of two different `!re` sentences, not that of *)
(* the `!done` after them                                                    *)
C14_TwoRecords ==
  /\ call.method = "get_data"
  /\ ~call.raised
  /\ Len(call.result) = 2
  /\ call.result[1] = {<<"name", "a.lan">>}
  /\ call.result[2] = {}
  /\ response.sentences[3].attributes # {}

(* C15: raise_for_error raises "response in progress" on a response that is *)
(* not complete, returns on a complete response whose status is not Error,   *)
(* raises ResponseError with one message for each `!trap` sentence, in       *)
(* order, on a complete response with status Error; it never changes the     *)
(* response.                                                                 *)
C15_RaiseForError ==
  /\ [](call.method = "raise_for_error"
          => IF ~is_complete(response) THEN call.raised /\ call.error = "response in progress"
             ELSE IF response.status # "error" THEN ~call.raised /\ call.error = ""
             ELSE /\ call.raised /\ call.error = "ResponseError"
                  /\ LET traps == AttributesOf(response.sentences, "!trap") IN
                     /\ Len(call.result) = Len(traps)
                     /\ \A i \in DOMAIN traps :
                          DictHas(traps[i], "message") => call.result[i] = DictGet(traps[i], "message"))
  /\ [][call'.method = "raise_for_error" => response' = response]_vars

(* raise_for_error raised ResponseError with the messages of two traps *)
C15_TwoMessages ==
  /\ call.method = "raise_for_error"
  /\ call.error = "ResponseError"
  /\ Len(call.result) = 2
  /\ call.result[1] = "failure"
  /\ call.result[2] = "response cancelled"

(* ---- a device trap ---- *)
(* The sentence at the head of what the device sent and the reader has not read *)
NextSentence == read_sentence(NoSentence, SubSeq(net, 1, FirstEmpty(net) - 1))

(* A step in which the reader reads a `!trap` the device sent for the        *)
(* pending request t                                                         *)
TrapRead(t) ==
  /\ net # <<>>
  /\ t \in responses
  /\ NextSentence.type = "!trap"
  /\ NextSentence.api_attributes = {<<".tag", Tag(t)>>}
  /\ net' = SubSeq(net, FirstEmpty(net) + 1, Len(net))
  /\ closer' = closer

(* C16: a `!trap` the device sends for a request is appended to that        *)
(* request's response, whose status becomes Error, and changes nothing else: *)
(* the socket, the closed signal, the background tasks and every other       *)
(* response stay as they are, the reader goes on reading and no close() is   *)
(* scheduled.  A send() whose response completed with Error returns it       *)
(* without raising, the connection as it was.  Every response returned holds *)
(* the sentences sent with its own tag, and a send() on the Open connection  *)
(* writes its request to the same socket with no dial and no /login.         *)
C16_TrapNotFatal ==
  /\ [][\A t \in 1..MaxTag : TrapRead(t)
          => /\ resp'[t] = [resp[t] EXCEPT !.sentences = Append(@, NextSentence), !.status = "error"]
             /\ ~is_complete(resp'[t])
             /\ \A u \in 1..MaxTag \ {t} : resp'[u] = resp[u]
             /\ UNCHANGED <<stream, sockets, closed_event, responses, background_tasks, monitor, caller, lockVars>>
             /\ reader' = [reader EXCEPT ![stream] = IF closed_event THEN "done" ELSE "run"]]_vars
  /\ [][\A c \in Callers :
          /\ caller[c].pc = "waiting" /\ caller'[c].pc = "idle" /\ Awaited(c).status = "error"
               => /\ caller'[c].result = "returned"
                  /\ UNCHANGED <<stream, sockets, closed_event, responses, background_tasks, taskVars, closer>>
          /\ caller[c].pc \in {"idle", "lockwait"} /\ caller'[c].pc \in {"drain", "waiting"}
               => /\ caller'[c].stream = stream /\ stream' = stream /\ stream \in sockets'
                  /\ nextTag' = nextTag + 1 /\ caller'[c].tag = nextTag
                  /\ UNCHANGED <<closed_event, background_tasks, taskVars>>]_vars
  /\ [](\A c \in Callers :
          caller[c].pc = "waiting" /\ is_complete(Awaited(c)) => Awaited(c).sentences = devSent[caller[c].tag])

(* The device answered one request with `!trap` and `!done`; its send() is  *)
(* about to return the response with status Error, while a request sent      *)
(* after it on the same socket is pending with its first sentence, the       *)
(* connection Open and the reader running.                                   *)
C16_TrappedAndPending ==
  \E c, d \in Callers :
    /\ caller[d].pc = "waiting" /\ caller[d].tag # stream
    /\ is_complete(Awaited(d)) /\ Awaited(d).status = "error"
    /\ Len(devSent[caller[d].tag]) = 2 /\ devSent[caller[d].tag][1].type = "!trap"
    /\ caller[c].pc = "waiting" /\ caller[c].tag > caller[d].tag
    /\ caller[c].stream = stream /\ caller[d].stream = stream
    /\ ~is_complete(Awaited(c)) /\ Len(Awaited(c).sentences) = 1
    /\ caller[c].tag \in responses
    /\ ~closed_event /\ stream \in sockets /\ reader[stream] = "run"

(* ---- the apply_changes claims ---- *)
(* The loop a client call was made from, by rank, and where in it *)
PhaseRank(pc) == IF pc = "idle" THEN 0 ELSE IF pc = "create" THEN 1 ELSE IF pc = "delete" THEN 2 ELSE 3

CallKey(c) ==
  <<PhaseRank(c.at.pc), c.at.i,
    IF c.at.pc = "update_delete" THEN 0 ELSE IF c.at.pc = "update_create" THEN 1 ELSE c.at.j>>

LexLess(a, b) ==
  \/ a[1] < b[1]
  \/ a[1] = b[1] /\ a[2] < b[2]
  \/ a[1] = b[1] /\ a[2] = b[2] /\ a[3] < b[3]

(* The client calls made for targets: <<loop, index, target>> *)
Issued == {<<calls[k].at.pc, calls[k].at.i, calls[k].at.target>> : k \in 2..Len(calls)}

Supported(endpoint) == endpoint.record_type \in {"A", "CNAME", "TXT"}

(* The record-map holds a record of the endpoint's name for the target *)
Listed(endpoint, target) ==
  /\ endpoint.dns_name \in DOMAIN record_map
  /\ \E k \in DOMAIN record_map[endpoint.dns_name] : Matches(record_map[endpoint.dns_name][k], target)

(* The update pairs there are *)
Pairs == 1..Min(Len(changes.update_old), Len(changes.update_new))

(* The calls a batch asks for once the records are listed *)
Planned ==
  {<<"create", i, t>> : i \in DOMAIN changes.create, t \in {"10.0.0.5", "10.0.0.6", "10.0.0.7"}}
    \cup {<<"delete", i, t>> : i \in DOMAIN changes.delete, t \in {"10.0.0.5", "10.0.0.6", "10.0.0.7"}}
    \cup {<<"update_delete", i, t>> : i \in Pairs, t \in {"10.0.0.5", "10.0.0.6", "10.0.0.7"}}
    \cup {<<"update_create", i, t>> : i \in Pairs, t \in {"10.0.0.5", "10.0.0.6", "10.0.0.7"}}

Wanted(x) ==
  LET i == x[2]
      t == x[3]
  IN IF x[1] = "create" THEN t \in set(changes.create[i].targets) /\ Supported(changes.create[i])
     ELSE IF x[1] = "delete" THEN t \in set(changes.delete[i].targets) /\ Listed(changes.delete[i], t)
     ELSE IF x[1] = "update_delete"
       THEN /\ t \in set(changes.update_old[i].targets) /\ t \notin set(changes.update_new[i].targets)
            /\ Listed(changes.update_new[i], t)
     ELSE /\ t \in set(changes.update_new[i].targets) /\ t \notin set(changes.update_old[i].targets)
          /\ Supported(changes.update_new[i])

(* C17: the first client call is the list call and the only one; the calls  *)
(* after it come in the order creates, deletes, updates, within the creates  *)
(* and the deletes by endpoint and then by target as listed in the batch,    *)
(* within the updates by pair, a pair's removals before its additions; the   *)
(* creates and update additions are adds, the deletes and update removals    *)
(* are removes; a call is made only when no call is in flight.               *)
C17_CallOrder ==
  /\ [](\A k \in DOMAIN calls :
          /\ calls[k].op = "list" <=> k = 1
          /\ k > 1 => calls[k].op = IF calls[k].at.pc \in {"create", "update_create"} THEN "add" ELSE "remove"
          /\ calls[k].at.pc = "create"
               => AttrWord("address", changes.create[calls[k].at.i].targets[calls[k].at.j]) \in set(calls[k].words)
          /\ \A l \in DOMAIN calls :
               k < l => \/ LexLess(CallKey(calls[k]), CallKey(calls[l]))
                        \/ /\ CallKey(calls[k]) = CallKey(calls[l])
                           /\ calls[k].at.pc \in {"update_delete", "update_create"}
                           /\ calls[k].at.target # calls[l].at.target)
  /\ [](in_flight \in {0, 1})
  /\ [][calls' # calls => in_flight = 0 /\ in_flight' = 1 /\ Len(calls') = Len(calls) + 1]_vars

(* apply_changes returned after the list call, two adds for a created       *)
(* endpoint, two removes for a deleted one, and a remove and an add for an   *)
(* update pair.                                                              *)
C17_AllGroups ==
  /\ apply.pc = "returned"
  /\ Len(calls) = 7
  /\ [k \in 1..7 |-> calls[k].op] = <<"list", "add", "add", "remove", "remove", "remove", "add">>
  /\ [k \in 1..7 |-> calls[k].at.pc]
       = <<"idle", "create", "create", "delete", "delete", "update_delete", "update_create">>

(* Nothing more happens to the batch: no step of the provider, of its       *)
(* client or of the device is possible                                       *)
BatchQuiescent == ~ENABLED <<NextProvider>>_vars

(* C18: apply_changes is best-effort.  An add or a remove that fails (the   *)
(* device's trap, a cancelled response, an error of the connection) or that  *)
(* cannot be translated does not make apply_changes raise: it goes on with   *)
(* the next target; and once nothing more happens to a batch whose records   *)
(* were listed, apply_changes has returned, the webhook answers 204, and     *)
(* every call the batch asks for has been made.                              *)
C18_BestEffort ==
  /\ [][apply.pc \in {"create", "delete", "update_delete", "update_create"} => apply'.pc # "raised"]_vars
  /\ [](BatchQuiescent /\ apply.pc \notin {"idle", "list", "raised"}
          => /\ apply.pc = "returned" /\ apply.http = 204 /\ in_flight = 0
             /\ Issued = {x \in Planned : Wanted(x)})

(* The connection was closed during an add or a remove: the response is     *)
(* cancelled, the call never returns, apply_changes has not returned and the *)
(* calls for the targets after it are never made.                            *)
C18_HungOnCancelled ==
  /\ BatchQuiescent
  /\ apply.awaiting \in {"add", "remove"}
  /\ Cancelled(client_response)
  /\ ~is_complete(client_response)
  /\ apply.http = 0
  /\ {x \in Planned : Wanted(x)} \ Issued # {}

DeleteTarget ==
  /\ apply.pc \in {"delete", "update_delete"}
  /\ apply.awaiting = ""
  /\ apply' # apply

(* C20: a delete, from `delete` or from an update's removed targets, of a   *)
(* target the record-map has no record for makes no client call and does     *)
(* not make apply_changes raise; when the record-map has one, one remove     *)
(* call is made, with `=numbers=` the id of a matching record as listed.     *)
C20_DeleteById ==
  [][DeleteTarget
       => LET t == apply'.last.target IN
          IF ~Listed(CurrentEndpoint, t)
          THEN calls' = calls /\ in_flight' = in_flight /\ apply'.pc # "raised" /\ apply'.awaiting = ""
          ELSE /\ Len(calls') = Len(calls) + 1
               /\ SubSeq(calls', 1, Len(calls)) = calls
               /\ calls'[Len(calls')].op = "remove"
               /\ \E k \in DOMAIN record_map[CurrentEndpoint.dns_name] :
                    /\ Matches(record_map[CurrentEndpoint.dns_name][k], t)
                    /\ calls'[Len(calls')].words
                         = <<CmdWord("/ip/dns/static/remove"),
                             AttrWord("numbers", record_map[CurrentEndpoint.dns_name][k].id)>>
                    /\ record_map[CurrentEndpoint.dns_name][k].id \in {"*1", "*2"}]_vars

(* apply_changes returned 204 after a delete of two targets: a remove by id *)
(* `*2` for the one the device listed, no call for the other.                *)
C20_OneFoundOneNot ==
  /\ apply.pc = "returned"
  /\ apply.http = 204
  /\ apply.last.action = "delete"
  /\ apply.last.record = NoRecord
  /\ Len(calls) = 2
  /\ calls[2].words = <<CmdWord("/ip/dns/static/remove"), AttrWord("numbers", "*2")>>

(* The endpoints a call is made for: the one of the loop, and for an        *)
(* update's removal the old one too, whose targets are removed               *)
EndpointsOf(x) ==
  IF x[1] = "create" THEN {changes.create[x[2]]}
  ELSE IF x[1] = "delete" THEN {changes.delete[x[2]]}
  ELSE IF x[1] = "update_create" THEN {changes.update_new[x[2]]}
  ELSE {changes.update_old[x[2]], changes.update_new[x[2]]}

(* C21: for an endpoint whose recordType is not A, CNAME or TXT, in create, *)
(* delete or an update pair, no add and no remove call is made for any of    *)
(* its targets, and handling its targets does not make apply_changes raise.  *)
C21_UnsupportedSkipped ==
  /\ [](\A x \in Issued : \A endpoint \in EndpointsOf(x) : Supported(endpoint))
  /\ [][apply.pc \in {"create", "delete", "update_delete", "update_create"}
          /\ apply.awaiting = "" /\ ~Supported(CurrentEndpoint)
          => apply'.pc # "raised"]_vars

(* A delete of a PTR endpoint with the target 10.0.0.5 made a remove call   *)
(* for the A record of that name and address                                 *)
C21_RemovedForPtr ==
  /\ apply.pc = "delete"
  /\ apply.awaiting = "remove"
  /\ changes.delete[apply.i].record_type = "PTR"
  /\ apply.last.record = IpDnsARecord("*1", "10.0.0.5")
  /\ calls[Len(calls)].words = <<CmdWord("/ip/dns/static/remove"), AttrWord("numbers", "*1")>>

(* The digits between two positions of a ttl, as a number; -1 when they are *)
(* not digits                                                                *)
Field(ttl, from, to) ==
  IF to > from + 1 /\ \A i \in (from + 1)..(to - 1) : IsDigit(ttl[i])
  THEN int(SubSeq(ttl, from + 1, to - 1)) ELSE -1

(* The ttl is `<w>w<d>d<h>h<m>m<s>s` with d in 0..6, h in 0..23, m and s in *)
(* 0..59                                                                     *)
FiveSegments(ttl) ==
  /\ SelectSeq(ttl, LAMBDA c : ~IsDigit(c)) = <<"w", "d", "h", "m", "s">>
  /\ LET at(key) == CHOOSE i \in DOMAIN ttl : ttl[i] = key
     IN /\ Field(ttl, 0, at("w")) >= 0
        /\ Field(ttl, at("w"), at("d")) \in 0..6
        /\ Field(ttl, at("d"), at("h")) \in 0..23
        /\ Field(ttl, at("h"), at("m")) \in 0..59
        /\ Field(ttl, at("m"), at("s")) \in 0..59
        /\ at("s") = Len(ttl)

(* C22 as stated: for every number of seconds n >= 0, to_routeros_ttl(n)    *)
(* has the five segments w d h m s, d in 0..6, h in 0..23, m and s in 0..59, *)
(* and to_external_dns_ttl of it is n.                                       *)
C22_TtlRoundTrip ==
  applied.fn = "to_routeros_ttl"
    => /\ ~applied.out.raised
       /\ FiveSegments(applied.out.ttl)
       /\ applied.out.back = applied.arg

(* C22, amended: the same for every n from 0 to 86399999999999, the last    *)
(* second of timedelta's 999999999 days; beyond it to_routeros_ttl raises    *)
(* OverflowError.                                                            *)
C22_TtlRoundTripInRange ==
  applied.fn = "to_routeros_ttl"
    => IF applied.arg.days <= MaxTimedeltaDays
       THEN /\ ~applied.out.raised
            /\ FiveSegments(applied.out.ttl)
            /\ applied.out.back = applied.arg
       ELSE applied.out.raised

(* 694861 seconds gave `1w1d1h1m1s`, which gave 694861 *)
C22_OneOfEach ==
  /\ applied.fn = "to_routeros_ttl"
  /\ applied.arg = Seconds(0, 694861)
  /\ Text(applied.out.ttl) = "1w1d1h1m1s"
  /\ applied.out.back = Seconds(0, 694861)

(* The number of bytes of the word in UTF-8 *)
RECURSIVE Utf8Bytes(_)
Utf8Bytes(text) == IF text = <<>> THEN 0 ELSE Utf8Len(Head(text)) + Utf8Bytes(Tail(text))

(* The number a prefix stands for once the mask is taken off its first byte *)
RECURSIVE BigEndian(_)
BigEndian(bytes) ==
  IF bytes = <<>> THEN 0 ELSE 256 * BigEndian(SubSeq(bytes, 1, Len(bytes) - 1)) + bytes[Len(bytes)]

PrefixLength(prefix) ==
  BigEndian([i \in DOMAIN prefix |->
               IF i = 1 THEN prefix[1] - <<0, 128, 192, 224, 240>>[ExtraBytes(prefix[1]) + 1]
               ELSE prefix[i]])

(* C23: read_word of what write_word(w) wrote returns w and leaves no byte  *)
(* unread; the prefix stands for the number of UTF-8 bytes of w, and the     *)
(* reader takes as many prefix bytes as the writer wrote.                    *)
C23_WordRoundTrip ==
  applied.fn = "write_word"
    => /\ applied.out.read.raised = ""
       /\ applied.out.read.word = applied.arg
       /\ applied.out.read.unread = 0
       /\ PrefixLength(applied.out.data.prefix) = Utf8Bytes(applied.arg.text) + applied.arg.more
       /\ ExtraBytes(applied.out.data.prefix[1]) = Len(applied.out.data.prefix) - 1

(* A word of 128 letters was written with the prefix 0x80 0x80, and         *)
(* read_word raised TypeError on it                                          *)
C23_TwoBytePrefixRaises ==
  /\ applied.fn = "write_word"
  /\ applied.arg = [text |-> <<>>, more |-> 128]
  /\ applied.out.data.prefix = <<128, 128>>
  /\ applied.out.read.raised = "TypeError"

(* The words of an add call say key = value, once *)
Says(words, key, value) ==
  /\ AttrWord(key, value) \in set(words)
  /\ \A i, j \in DOMAIN words : words[i][2] = key /\ words[j][2] = key => i = j

(* The ttl the claim expects for a recordTTL: its encoding, and that of     *)
(* 86400 when it is absent                                                   *)
EncodedTtl(record_ttl) ==
  IF record_ttl = None THEN "0w1d0h0m0s"
  ELSE IF record_ttl = Seconds(0, 0) THEN "0w0d0h0m0s"
  ELSE IF record_ttl = Seconds(0, 3600) THEN "0w0d1h0m0s"
  ELSE "1w1d1h1m1s"

PayloadField(type) == IF type = "A" THEN "address" ELSE IF type = "CNAME" THEN "cname" ELSE "text"

(* C24: for an endpoint of type A, CNAME or TXT one add call is made for    *)
(* each target, and its words say name = dnsName, disabled = false,          *)
(* match-subdomain = whether the target starts with `*.`, ttl = the encoded  *)
(* recordTTL (that of 86400 when it is absent), type = the recordType, the   *)
(* target in the field of the type, and no id.                               *)
C24_EndpointToRecord ==
  applied.fn = "to_routeros_record" /\ Supported(applied.arg)
    => /\ Len(applied.out) = Len(applied.arg.targets)
       /\ \A j \in DOMAIN applied.out :
            LET words == applied.out[j].words
                target == applied.arg.targets[j]
            IN /\ applied.out[j].raised = ""
               /\ words[1] = CmdWord("/ip/dns/static/add")
               /\ Says(words, "name", applied.arg.dns_name)
               /\ Says(words, "disabled", "false")
               /\ Says(words, "match-subdomain", IF target = "*.b.lan" THEN "true" ELSE "false")
               /\ Says(words, "ttl", EncodedTtl(applied.arg.record_ttl))
               /\ Says(words, "type", applied.arg.record_type)
               /\ Says(words, PayloadField(applied.arg.record_type), target)
               /\ \A i \in DOMAIN words : words[i][2] \notin {"id", ".id"}

(* An A endpoint with recordTTL 3600 and the target 10.0.0.5 was            *)
(* translated: the add call says type = IpDnsRecordType.A                    *)
C24_TypeByEnumName ==
  /\ applied.fn = "to_routeros_record"
  /\ applied.arg.record_type = "A"
  /\ applied.arg.record_ttl = Seconds(0, 3600)
  /\ applied.arg.targets = <<"10.0.0.5">>
  /\ applied.out[1].words =
       <<CmdWord("/ip/dns/static/add"), AttrWord("disabled", "false"), AttrWord("match-subdomain", "false"),
         AttrWord("name", "a.lan"), AttrWord("ttl", "0w0d1h0m0s"), AttrWord("address", "10.0.0.5"),
         AttrWord("type", "IpDnsRecordType.A")>>

(* C25: list_records returns one endpoint for each A, CNAME and TXT record  *)
(* of the device, in listing order, and none for a record of another type;   *)
(* the endpoint has the record's name, type, its one payload as the only     *)
(* target, the TTL decoded to seconds, no labels and no provider-specific    *)
(* properties; a row without `type` is an A record.                          *)
RowType(row) == IF DictHas(row, "type") THEN DictGet(row, "type") ELSE "A"
RowTtl == [ttl \in {"1d", "1h", "5m", "1w1d1h1m1s", "90000s"} |->
             IF ttl = "1d" THEN [days |-> 1, seconds |-> 0]
             ELSE IF ttl = "1h" THEN [days |-> 0, seconds |-> 3600]
             ELSE IF ttl = "5m" THEN [days |-> 0, seconds |-> 300]
             ELSE IF ttl = "1w1d1h1m1s" THEN [days |-> 8, seconds |-> 3661]
             ELSE [days |-> 1, seconds |-> 3600]]
SupportedRows(rows) == SelectSeq(rows, LAMBDA row : RowType(row) \in {"A", "CNAME", "TXT"})

C25_ListRecords ==
  applied.fn = "list_records" =>
    LET rows == SupportedRows(applied.arg)
        endpoints == applied.out.endpoints
    IN /\ applied.out.raised = ""
       /\ Len(endpoints) = Len(rows)
       /\ \A k \in DOMAIN rows :
            /\ endpoints[k].dns_name = DictGet(rows[k], "name")
            /\ endpoints[k].record_type = RowType(rows[k])
            /\ endpoints[k].targets = <<DictGet(rows[k], PayloadKey(RowType(rows[k])))>>
            /\ endpoints[k].record_ttl = RowTtl[DictGet(rows[k], "ttl")]
            /\ endpoints[k].labels = {}
            /\ endpoints[k].provider_specific = <<>>

(* a listing of a row without `type` and a row of another type *)
C25_LegacyAndOther ==
  /\ applied.fn = "list_records"
  /\ Len(applied.arg) = 2
  /\ ~DictHas(applied.arg[1], "type")
  /\ DictGet(applied.arg[2], "type") = "NXDOMAIN"
  /\ Len(applied.out.endpoints) = 1
  /\ applied.out.endpoints[1].record_type = "A"

(* C26: when the listing has an A record with name x and address y, find   *)
(* for an endpoint of name x and type A and the target y returns a record    *)
(* with name x and address y; find returns none when no listed record of the *)
(* endpoint's name has a payload equal to the target; find never returns a   *)
(* record of another name.                                                   *)
Payload(record) ==
  IF record.type \in {"A", "AAAA"} THEN record.address ELSE IF record.type = "CNAME" THEN record.cname
  ELSE IF record.type = "TXT" THEN record.text ELSE ""

C26_RecordMapLookup ==
  applied.fn = "find" =>
    LET records == applied.arg.records
        endpoint == applied.arg.endpoint
        target == applied.arg.target
        named == {k \in DOMAIN records : records[k].name = endpoint.dns_name}
    IN /\ (endpoint.record_type = "A" /\ \E k \in named : records[k].type = "A" /\ records[k].address = target)
            => /\ applied.out.type \in {"A", "AAAA"}
               /\ applied.out.name = endpoint.dns_name
               /\ applied.out.address = target
       /\ (\A k \in named : Payload(records[k]) # target) => applied.out = NoRecord
       /\ applied.out # NoRecord => applied.out.name = endpoint.dns_name

(* the TXT record listed before the A record of its name and payload is the  *)
(* one found for the A endpoint                                              *)
C26_TxtFoundForA ==
  /\ applied.fn = "find"
  /\ applied.arg.endpoint.record_type = "A"
  /\ Len(applied.arg.records) = 2
  /\ applied.arg.records[2].type = "A"
  /\ applied.arg.records[2].name = applied.arg.endpoint.dns_name
  /\ applied.arg.records[2].address = applied.arg.target
  /\ applied.out.type = "TXT"
  /\ applied.out.id = "*7"

(* C26 without its first part *)
C26_NoneAndSameName ==
  applied.fn = "find" =>
    LET records == applied.arg.records
        endpoint == applied.arg.endpoint
        named == {k \in DOMAIN records : records[k].name = endpoint.dns_name}
    IN /\ (\A k \in named : Payload(records[k]) # applied.arg.target) => applied.out = NoRecord
       /\ applied.out # NoRecord => applied.out.name = endpoint.dns_name

(* C27: responses are delivered in the order the device terminates them:   *)
(* a send() waiting on a response returns once the `!done` of its own tag    *)
(* has been read, whatever requests sent earlier are still pending, and the  *)
(* read of a sentence completes and changes the response of its own tag      *)
(* only, and wakes no other caller.                                          *)
SentenceRead == read_sentence(NoSentence, SubSeq(net, 1, FirstEmpty(net) - 1))
TagRead == CHOOSE t \in Gens : Tag(t) = DictGet(SentenceRead.api_attributes, ".tag")

C27_DeliveredAsTerminated ==
  /\ [](\A c \in Callers :
          (caller[c].pc = "waiting" /\ is_complete(resp[caller[c].tag])) => ENABLED SendReturn(c))
  /\ [][\A g \in Gens :
          (ReadSentence(g) /\ SentenceRead # NoSentence /\ ~ReadRaises(SentenceRead)) =>
            /\ SentenceRead.type = "!done" => is_complete(resp'[TagRead])
            /\ \A u \in Gens \ {TagRead} : resp'[u] = resp[u]
            /\ \A c \in Callers :
                 /\ caller'[c] = caller[c]
                 /\ (caller[c].pc = "waiting" /\ caller[c].tag # TagRead)
                      => (is_complete(resp'[caller[c].tag]) <=> is_complete(resp[caller[c].tag]))]_vars

(* the request sent later is complete and its send() can return, while the   *)
(* request sent before it is on the device and still pending                 *)
C27_LaterReturnsFirst ==
  \E c \in Callers, d \in Callers :
    /\ caller[c].pc = "waiting" /\ caller[d].pc = "waiting"
    /\ caller[c].tag < caller[d].tag
    /\ caller[c].tag \in received /\ caller[c].tag \in responses
    /\ ~is_complete(resp[caller[c].tag])
    /\ is_complete(resp[caller[d].tag])
    /\ resp[caller[d].tag].status = "success"
    /\ ENABLED SendReturn(d)

(* C28: every request sentence put on the wire is the words of the request *)
(* in their order, then exactly one `.tag=<tag>` word, then the empty word;  *)
(* every Request has a fresh tag, so no two pending requests share a tag.    *)
WordsOf(written) == [i \in DOMAIN written |-> written[i].word]
RequestWords(pc) == IF pc \in {"login_drain", "login_wait"} THEN LoginWords ELSE PrintWords
Terminates(c) ==
  /\ caller'[c].pc \in {"waiting", "login_wait"}
  /\ caller'[c] # caller[c]
  /\ caller'[c].tag \in received' \ received
TagWords(words) == {i \in DOMAIN words : words[i][1] = "." /\ words[i][2] = ".tag"}

C28_RequestSentence ==
  /\ [](\A c \in Callers, d \in Callers :
          (c # d /\ caller[c].tag \in responses /\ caller[d].tag \in responses)
            => caller[c].tag # caller[d].tag)
  /\ [][/\ \A c \in Callers :
            Terminates(c) =>
              LET sentence == get_sentence(RequestWords(caller'[c].pc), Tag(caller'[c].tag))
                  from == IF caller[c].pc \in {"drain", "login_drain"} THEN caller[c].idx ELSE 1
                  sent == WordsOf(wire) \o SubSeq(sentence, from, Len(sentence))
              IN /\ sent = RequestWords(caller'[c].pc) \o <<ApiWord(".tag", Tag(caller'[c].tag)), EmptyWord>>
                 /\ Cardinality(TagWords(sent)) = 1
                 /\ received' = received \cup {caller'[c].tag}
          /\ \A t \in responses' \ responses : t = nextTag /\ nextTag' > nextTag /\ resp[t] = NoResponse]_vars

(* a request has written its first words, and they have gone to the device *)
(* in the sentence another request terminated                               *)
OfRequest(written, t) == WordsOf(SelectSeq(written, LAMBDA w : w.req = t))
C28_WordsInAnotherSentence ==
  \E c \in Callers :
    /\ caller[c].pc = "drain"
    /\ caller[c].stream \in sockets
    /\ caller[c].idx > 1
    /\ OfRequest(wire, caller[c].tag) = <<>>
    /\ \E d \in Callers \ {c} : caller[d].pc = "waiting" /\ caller[d].tag \in received

(* C28 for the tags alone *)
C28_FreshTags ==
  /\ [](\A c \in Callers, d \in Callers :
          (c # d /\ caller[c].tag \in responses /\ caller[d].tag \in responses)
            => caller[c].tag # caller[d].tag)
  /\ [][\A t \in responses' \ responses : t = nextTag /\ nextTag' > nextTag /\ resp[t] = NoResponse]_vars

(* C29: to_attribute_words gives one word `=key=value` per item, in the    *)
(* order of the items, with a bool as `true` or `false`, None as the empty   *)
(* string and any other value by its text; the dict of the unit test gives   *)
(* `=str=a`, `=int=1`, `=bool=true`, `=none=`.  to_api_attribute_words gives *)
(* the words `key=value`, and raises, giving no words, when a key does not   *)
(* start with `.`.                                                           *)
Rendering(value) ==
  IF value = Str(<<"a">>) THEN <<"a">>
  ELSE IF value = Str(<<"a", "=", "b">>) THEN <<"a", "=", "b">>
  ELSE IF value = Number(1) THEN <<"1">>
  ELSE IF value = Number(-10) THEN <<"-", "1", "0">>
  ELSE IF value = Bool(TRUE) THEN <<"t", "r", "u", "e">>
  ELSE IF value = Bool(FALSE) THEN <<"f", "a", "l", "s", "e">>
  ELSE <<>>

C29_AttributeWords ==
  /\ applied.fn = "to_attribute_words" =>
       /\ Len(applied.out) = Len(applied.arg)
       /\ \A i \in DOMAIN applied.arg :
            applied.out[i] = <<"=">> \o applied.arg[i][1] \o <<"=">> \o Rendering(applied.arg[i][2])
       /\ applied.arg = TestDict =>
            applied.out = << <<"=", "s", "t", "r", "=", "a">>, <<"=", "i", "n", "t", "=", "1">>,
                            <<"=", "b", "o", "o", "l", "=", "t", "r", "u", "e">>,
                            <<"=", "n", "o", "n", "e", "=">> >>
  /\ applied.fn = "to_api_attribute_words" =>
       IF \E i \in DOMAIN applied.arg : applied.arg[i][1] = <<>> \/ applied.arg[i][1][1] # "."
       THEN applied.out.raised = "ValueError" /\ applied.out.words = <<>>
       ELSE /\ applied.out.raised = ""
            /\ Len(applied.out.words) = Len(applied.arg)
            /\ \A i \in DOMAIN applied.arg :
                 applied.out.words[i] = applied.arg[i][1] \o <<"=">> \o Rendering(applied.arg[i][2])

(* the dict of the unit test, through to_attribute_words *)
C29_TestDict ==
  /\ applied.fn = "to_attribute_words"
  /\ applied.arg = TestDict
  /\ Len(applied.out) = 4
  /\ applied.out[3] = <<"=", "b", "o", "o", "l", "=", "t", "r", "u", "e">>

(* C30: read_sentence of what write_sentence wrote for a sentence (a type   *)
(* word, attribute words, api-attribute words, the empty word) returns a     *)
(* sentence with the same type, attributes and api attributes; an attribute  *)
(* value that contains `=` is returned whole.                                *)
C30_SentenceRoundTrip ==
  applied.fn = "write_sentence" =>
    /\ applied.out.raised = ""
    /\ applied.out.sentence.type = applied.arg.type
    /\ applied.out.sentence.attributes = set(applied.arg.attributes)
    /\ applied.out.sentence.api_attributes = set(applied.arg.api_attributes)

(* a sentence with a TXT value of more than 127 characters was written, and *)
(* read_sentence raised TypeError                                            *)
C30_LongValueRaises ==
  /\ applied.fn = "write_sentence"
  /\ Len(applied.arg.attributes) = 1
  /\ applied.arg.attributes[1][2].more = 200
  /\ applied.arg.api_attributes # <<>>
  /\ applied.arg.api_attributes[1][2] = Word(<<"1">>)
  /\ applied.out.raised = "TypeError"

(* C30 for sentences of ASCII words of up to 127 characters whose api       *)
(* attributes have no `=` in their values                                    *)
C30_ShortAsciiRoundTrip ==
  (/\ applied.fn = "write_sentence"
   /\ \A i \in DOMAIN applied.arg.attributes :
        applied.arg.attributes[i][2].more = 0 /\ applied.arg.attributes[i][2].text # <<"é">>
   /\ \A i \in DOMAIN applied.arg.api_attributes : Len(split(applied.arg.api_attributes[i][2].text)) = 1)
    => /\ applied.out.raised = ""
       /\ applied.out.sentence.type = applied.arg.type
       /\ applied.out.sentence.attributes = set(applied.arg.attributes)
       /\ applied.out.sentence.api_attributes = set(applied.arg.api_attributes)

(* an attribute value with `=` came back whole *)
C30_EqualsKept ==
  /\ applied.fn = "write_sentence"
  /\ applied.out.raised = ""
  /\ \E p \in applied.out.sentence.attributes : p[2] = Word(<<"a", "=", "b">>)
  /\ \E p \in applied.out.sentence.attributes : p[2] = Word(<<"=">>)

(* C31: send() registers the Response of its fresh tag in the pending map  *)
(* in the step that writes the first word of the request, and in no other;   *)
(* every request with words on the wire, and every request the device has,   *)
(* was registered; a sentence read for a request the device has finds its    *)
(* response unless that was completed or cancelled; and the reader removes a *)
(* response from the pending map only when its completion signal is set.     *)
ReaderStep == stream' = stream /\ sockets' = sockets /\ Len(net') < Len(net)
Written == {wire[i].req : i \in DOMAIN wire} \cup received

C31_RegisteredBeforeWritten ==
  /\ [](\A t \in Written : t < nextTag)
  /\ [](\A t \in received :
          t \in responses \/ resp[t] = NoResponse \/ resp[t].completion_event \/ Cancelled(resp[t]))
  /\ [][/\ nextTag' # nextTag =>
            /\ nextTag' = nextTag + 1
            /\ nextTag \notin Written
            /\ nextTag \in responses'
            /\ resp'[nextTag].tag = Tag(nextTag) /\ resp'[nextTag].sentences = <<>>
            /\ ~resp'[nextTag].completion_event
        /\ \A t \in Written' \ Written : (t \in responses') \/ (t < nextTag /\ t \notin responses)
        /\ \A t \in responses' \ responses : t = nextTag
        /\ ReaderStep => \A t \in responses \ responses' : resp'[t].completion_event]_vars

(* the reader reads the `!done` of a request whose response is in the       *)
(* pending map, while the caller is still writing another request            *)
C31_ReplyFindsResponse ==
  /\ \E c \in Callers :
       /\ caller[c].pc = "waiting"
       /\ caller[c].tag \in devDone
       /\ caller[c].tag \in responses
       /\ resp[caller[c].tag].sentences = <<>>
       /\ net # <<>>
  /\ \E c \in Callers : caller[c].pc = "drain" /\ caller[c].tag \in responses

(* C32: a request other than `/login` is begun on a socket only after the   *)
(* device answered the `/login` of that socket with `!done` and no `!trap`.   *)
C32_LoginBeforeRequests ==
  [][\A c \in Callers :
       /\ nextTag' # nextTag
       /\ caller'[c].tag = nextTag
       /\ caller'[c].stream # nextTag
       => caller'[c].stream = stream /\ session = "ok"]_vars

(* A send() that waited on the lock while the /login of another caller's    *)
(* open() was rejected has written its request on the rejected socket, and   *)
(* the close() open() scheduled has not run.                                 *)
C32_WrittenOnRejected ==
  /\ session = "rejected"
  /\ stream \in sockets
  /\ \E k \in Closers : closer[k].pc = "start"
  /\ \E c \in Callers :
       /\ caller[c].stream = stream
       /\ caller[c].tag # stream
       /\ caller[c].tag \in received
       /\ caller[c].pc = "waiting"
  /\ \E c \in Callers : caller[c].result = "raised"

(* C33: a close() that has the lock and finds the closed signal clear sets   *)
(* it whatever the idle time is; the idle monitor schedules close() when the  *)
(* connection is idle whatever is pending; and once nothing more happens, the *)
(* socket whose monitor scheduled close() is closed and dropped, the pending  *)
(* map is empty, and a request still waited for on that socket is cancelled.  *)
C33_CloseWithoutRecheck ==
  /\ [][\A k \in Closers :
          /\ closer[k].pc \in {"start", "lockwait"}
          /\ closer'[k].pc \notin {"start", "lockwait"}
          /\ ~closed_event
          => closed_event']_vars
  /\ [](\A g \in Gens :
          monitor[g] = "run" /\ Polling /\ ~closed_event /\ is_idle /\ CanSpawnClose
            => ENABLED MonitorStep(g))
  /\ [](\A g \in Gens :
          Quiescent /\ monitor[g] = "done"
            => /\ g \notin sockets
               /\ stream = 0
               /\ responses = {}
               /\ \A c \in Callers :
                    caller[c].pc = "waiting" /\ caller[c].stream = g => Cancelled(resp[caller[c].tag]))

(* The idle monitor scheduled close(), a send() then took the socket from    *)
(* open() and wrote its request, and close() has closed the socket and        *)
(* cancelled that request.                                                    *)
C33_ClosedUnderSend ==
  /\ stream = 0
  /\ closed_event
  /\ idle = 0
  /\ \A k \in Closers : closer[k].pc = "free"
  /\ \E c \in Callers :
       /\ caller[c].pc = "waiting"
       /\ caller[c].stream # caller[c].tag
       /\ caller[c].stream \notin sockets
       /\ Cancelled(resp[caller[c].tag])
       /\ resp[caller[c].tag].sentences = <<CancelSentence>>

(* The reader had failed when the idle monitor scheduled close(); a send()   *)
(* wrote its request on the socket before close() ran, close() ended at       *)
(* `await task`, and the request is neither cancelled nor the socket closed.  *)
C33_NotClosedUnderSend ==
  /\ Quiescent
  /\ stream # 0
  /\ monitor[stream] = "done"
  /\ reader[stream] = "failed"
  /\ stream \in sockets
  /\ closed_event
  /\ idle = 0
  /\ \E c \in Callers :
       /\ caller[c].pc = "waiting"
       /\ caller[c].stream = stream
       /\ caller[c].tag \in responses
       /\ resp[caller[c].tag].sentences = <<>>

(* C34: every step in which the reader takes words from the socket takes the *)
(* words of one sentence up to and including its terminating empty word, so   *)
(* that no sentence is dispatched before its empty word was read; and a       *)
(* reader that leaves its loop on a timeout with nothing read leaves the      *)
(* last-activity time and the pending map as they were.                       *)
C34_WholeSentences ==
  /\ [][ReaderStep => net' = SubSeq(net, FirstEmpty(net) + 1, Len(net))]_vars
  /\ [][\A g \in Gens :
          reader[g] = "run" /\ reader'[g] = "done" /\ net' = net
            => idle' = idle /\ resp' = resp /\ responses' = responses]_vars

(* The one-second timeout fired between two words of a sentence: the words   *)
(* read so far were dispatched as a sentence without `.tag`, the reader       *)
(* raised, and the rest of the sentence is still in the socket.               *)
C34_SentenceCutShort ==
  /\ stream # 0
  /\ reader[stream] = "failed"
  /\ net # <<>>
  /\ net[1][1] \in {"=", "."}
  /\ \E c \in Callers : caller[c].pc \in {"waiting", "login_wait"} /\ caller[c].tag \in responses

(* C35: once nothing more happens, every close() that was scheduled has      *)
(* ended and, if the closed signal is set, no reader or monitor loop is still *)
(* running; and a close() is only ever scheduled: the step that schedules it  *)
(* leaves it at its start and does not wait for it.                           *)
C35_CloseTerminates ==
  /\ [](Quiescent => \A k \in Closers : closer[k].pc = "free")
  /\ [](Quiescent /\ closed_event => \A g \in Gens : reader[g] # "run" /\ monitor[g] # "run")
  /\ [][\A k \in Closers :
          closer[k].pc = "free" /\ closer'[k].pc # "free"
            => /\ closer'[k].pc = "start"
               /\ lockOwner' # CloseTask(k)
               /\ \A c \in Callers : caller'[c].pc \in {caller[c].pc, "idle"}]_vars

(* The reader failed while open() waited for the answer to /login with the   *)
(* lock held: a close() scheduled meanwhile waits for the lock and nothing    *)
(* more happens.                                                              *)
C35_CloseWaitsForever ==
  /\ Quiescent
  /\ stream # 0
  /\ reader[stream] = "failed"
  /\ \E k \in Closers : closer[k].pc = "lockwait"
  /\ \E c \in Callers : caller[c].pc = "login_wait" /\ lockOwner = SendTask(c)

(* C36: find returns the first record, in the order of the listing, that has *)
(* the endpoint's name and is an A record whose address, a CNAME record whose *)
(* cname or a TXT record whose text is the target, and none when there is no  *)
(* such record; the endpoint's record type plays no part.                     *)
C36_FirstOfNameAndPayload ==
  applied.fn = "find" =>
    LET records == applied.arg.records
        target == applied.arg.target
        hits == {k \in DOMAIN records :
                   /\ records[k].name = applied.arg.endpoint.dns_name
                   /\ \/ records[k].type = "A" /\ records[k].address = target
                      \/ records[k].type = "CNAME" /\ records[k].cname = target
                      \/ records[k].type = "TXT" /\ records[k].text = target}
    IN /\ hits = {} => applied.out = NoRecord
       /\ hits # {} => \E k \in hits : applied.out = records[k] /\ \A l \in hits : k <= l

(* Two listed records of the endpoint's name hold the target; the first one, *)
(* an A record, is found for a TXT endpoint.                                  *)
C36_OtherTypeFound ==
  /\ applied.fn = "find"
  /\ applied.arg.endpoint.record_type = "TXT"
  /\ Len(applied.arg.records) = 2
  /\ applied.arg.records[1].type = "A"
  /\ applied.arg.records[1].address = applied.arg.target
  /\ applied.arg.records[2].type = "TXT"
  /\ applied.arg.records[2].text = applied.arg.target
  /\ applied.arg.records[1].name = applied.arg.records[2].name
  /\ applied.out = applied.arg.records[1]

(* C37: the record-map is set once, from the answer to the list call and     *)
(* before any add or remove is made, and never again; the list call is the    *)
(* first call and the only one of its kind; and every remove is made for a    *)
(* target that a record of the record-map holds, whatever was added before,   *)
(* and carries that record's id.                                              *)
C37_ListedOnce ==
  /\ [][record_map' # record_map
          => /\ apply.awaiting = "list"
             /\ Len(calls) = 1
             /\ calls' = calls
             /\ \A n \in DOMAIN record_map' : \A j \in DOMAIN record_map'[n] :
                  \E k \in DOMAIN list_ip_dns_records(client_response) :
                    record_map'[n][j] = list_ip_dns_records(client_response)[k]]_vars
  /\ [](\A k \in DOMAIN calls : calls[k].op = "list" <=> k = 1)
  /\ [](\A k \in DOMAIN calls :
          calls[k].op = "remove"
            => \E n \in DOMAIN record_map : \E j \in DOMAIN record_map[n] :
                 /\ record_map[n][j].type = "A"
                 /\ record_map[n][j].address = calls[k].at.target
                 /\ calls[k].words = <<CmdWord("/ip/dns/static/remove"),
                                       AttrWord("numbers", record_map[n][j].id)>>)

(* apply_changes returned after it added 10.0.0.7 and deleted it again: no   *)
(* remove was made for it, and the listed record `*2` was removed twice.      *)
C37_StaleListing ==
  /\ apply.pc = "returned"
  /\ \E k \in DOMAIN calls : calls[k].op = "add" /\ calls[k].at.target = "10.0.0.7"
  /\ \E i \in DOMAIN changes.delete : "10.0.0.7" \in set(changes.delete[i].targets)
  /\ \A k \in DOMAIN calls : calls[k].op = "remove" => calls[k].at.target # "10.0.0.7"
  /\ \E k, l \in DOMAIN calls :
       /\ k < l
       /\ calls[k].op = "remove"
       /\ calls[l].words = calls[k].words

(* C38: apply_changes goes on to its loops only when the list call returned  *)
(* records; when it has raised, the list call is the only call that was made  *)
(* and the webhook does not answer 204; and once nothing more happens,        *)
(* apply_changes is not still waiting for the list call: a list call that     *)
(* failed has made it raise.                                                  *)
C38_ListFailureRaises ==
  /\ [][apply.pc = "list" /\ apply'.pc \notin {"list", "raised"}
          => /\ is_complete(client_response)
             /\ client_response.status = "success"
             /\ ~Cancelled(client_response)]_vars
  /\ [](apply.pc = "raised" => Len(calls) = 1 /\ calls[1].op = "list" /\ apply.http # 204)
  /\ [](apply.pc = "list" => Len(calls) = 1 /\ calls[1].op = "list")
  /\ [](BatchQuiescent => apply.pc # "list")

(* The connection was closed during the list call: its response is cancelled *)
(* and never complete, apply_changes neither raises nor returns, and no add   *)
(* or remove was made.                                                        *)
C38_ListNeverReturns ==
  /\ BatchQuiescent
  /\ apply.pc = "list"
  /\ apply.awaiting = "list"
  /\ Cancelled(client_response)
  /\ ~is_complete(client_response)
  /\ Len(calls) = 1
  /\ changes # NoChanges

(* C39 as stated: the add calls for an endpoint of type A, CNAME or TXT say  *)
(* ttl = `0w1d0h0m0s` when its recordTTL is 0, as when it is absent, and      *)
(* never `0w0d0h0m0s`; for every recordTTL n > 0 an add call is made for each *)
(* target and says ttl = the encoding of n.                                   *)
C39_ZeroAsAbsent ==
  applied.fn = "to_routeros_record" /\ Supported(applied.arg)
    => \A j \in DOMAIN applied.out :
         /\ applied.out[j].raised = ""
         /\ AttrWord("ttl", "0w0d0h0m0s") \notin set(applied.out[j].words)
         /\ IF applied.arg.record_ttl \in {None, Seconds(0, 0)}
            THEN Says(applied.out[j].words, "ttl", "0w1d0h0m0s")
            ELSE Says(applied.out[j].words, "ttl", Text(to_routeros_ttl(applied.arg.record_ttl)))

(* C39, amended: the same for every n from 1 to 86399999999999, the last     *)
(* second of timedelta's 999999999 days; beyond it to_routeros_record raises  *)
(* OverflowError and no add call is made for the target.                      *)
C39_ZeroAsAbsentInRange ==
  applied.fn = "to_routeros_record" /\ Supported(applied.arg)
    => \A j \in DOMAIN applied.out :
         /\ AttrWord("ttl", "0w0d0h0m0s") \notin set(applied.out[j].words)
         /\ IF applied.arg.record_ttl \in {None, Seconds(0, 0)}
            THEN applied.out[j].raised = "" /\ Says(applied.out[j].words, "ttl", "0w1d0h0m0s")
            ELSE IF applied.arg.record_ttl.days <= MaxTimedeltaDays
            THEN /\ applied.out[j].raised = ""
                 /\ Says(applied.out[j].words, "ttl", Text(to_routeros_ttl(applied.arg.record_ttl)))
            ELSE applied.out[j].raised = "OverflowError" /\ applied.out[j].words = <<>>

(* An endpoint with recordTTL 0 was translated: its add call says            *)
(* ttl = `0w1d0h0m0s`                                                        *)
C39_ZeroSentAsOneDay ==
  /\ applied.fn = "to_routeros_record"
  /\ applied.arg.record_ttl = Seconds(0, 0)
  /\ applied.arg.record_type = "CNAME"
  /\ Len(applied.out) = 2
  /\ \A j \in DOMAIN applied.out : AttrWord("ttl", "0w1d0h0m0s") \in set(applied.out[j].words)

====
